---- MODULE Spec2Model ----
(***************************************************************************)
(* Presence registry, stale-connection reaper and chat pipeline of the     *)
(* matrimony backend (socket/socketHandler.js, controllers/                *)
(* chatController.js, models/Conversation.js, models/Message.js,           *)
(* utils/entitlements.js).                                                 *)
(*                                                                         *)
(* Every handler is cut at its awaits: one action is the effect of the     *)
(* awaited store operation together with the synchronous code that runs    *)
(* until the handler's next await.  The code before a handler's first      *)
(* await runs in the action that delivers the event.                       *)
(***************************************************************************)
EXTENDS Integers, Sequences, FiniteSets, TLC

----------------------------------------------------------------------------
(* Bounds of the model *)

\* connections (socket ids) that are ever opened; a reconnect is a new handle
NumHandles == 3

Users == {"A", "B"}

Handles == 1..NumHandles

\* socket.userId of a connection: odd handles belong to A, even ones to B
Owner(h) == IF h % 2 = 1 THEN "A" ELSE "B"

----------------------------------------------------------------------------
VARIABLES
  onlineUsers,      \* the Map userIdStr -> Set(socketId), in insertion order
  cleanupInterval,  \* TRUE while the reaper's interval timer is set
  sock,             \* io.sockets.sockets: "new" (not opened), "live", "dead";
                    \* "refused": the handshake middleware rejected it
  connPc,           \* connection handler of h: "idle", "await", "ready"
  wasOnline,        \* the connection handler's local wasOnline
  discPc,           \* disconnect handler of h: "idle", "await", "done"
  reaperQueue,      \* runCleanup: disconnectedUsers from the user whose update is awaited
  shutdownPc,       \* cleanup(): "idle", "await" (Promise.all pending)
  shutdownUsers,    \* cleanup(): the users whose offline update was issued
  userOnline,       \* User.isOnline in the store
  onlineEmitted,    \* h: the connection of h broadcast user_status_change online
  offlineEmits,     \* u: number of user_status_change offline broadcasts for u
  \* history variables, read by the properties only
  preEntry,         \* h: the registry had an entry for Owner(h) right before h registered
  transitions,      \* u: number of times u's registry entry was removed
  reaped,           \* users whose entry a reaper sweep removed
  reapedLive        \* live handles that a reaper sweep removed from the registry

presenceVars == <<onlineUsers, cleanupInterval, sock, connPc, wasOnline, discPc,
                  reaperQueue, shutdownPc, shutdownUsers, userOnline,
                  onlineEmitted, offlineEmits, preEntry, transitions, reaped,
                  reapedLive>>

VARIABLES
  accounts,         \* the User collection: the fields the chat code reads
  convs,            \* the Conversation collection, by _id 1..Len(convs)
  msgs,             \* the Message collection, in insertion order
  req,              \* the chat handlers in flight: locals and position of each
  ops,              \* number of chat requests received so far; the clock of
                    \* new Date()
  \* history variable, read by the properties only
  last              \* the handler that returned in the last step, NoLast if none
                    \* did: its reply, its emits and whether it wrote to the store

chatVars == <<accounts, convs, msgs, req, ops, last>>

VARIABLES
  cred,             \* h: the credential the client of connection h presents
  joined,           \* h: the conversation rooms socket h has joined
  \* history variable, read by the properties only
  inbox,            \* the chat request received last: its payload, and whether
                    \* the store held a conversation of sender and receiver then
  emitted,          \* the messages whose new_message was emitted, in the order
                    \* of the emits
  announced         \* u: the isOnline of the last user_status_change broadcast
                    \* for u ("none" before the first)

envVars == <<cred, joined, inbox, emitted, announced>>

vars == <<presenceVars, chatVars, envVars>>

----------------------------------------------------------------------------
(* The JavaScript Map onlineUsers: a sequence of entries in insertion order *)

MapKeys(m) == {m[i].k : i \in DOMAIN m}

MapHas(m, key) == key \in MapKeys(m)

\* the set stored under key (the caller has checked MapHas)
MapGet(m, key) == m[CHOOSE i \in DOMAIN m : m[i].k = key].v

\* Map.set: an existing key keeps its place, a new key goes last
MapSet(m, key, val) ==
  IF MapHas(m, key)
    THEN [i \in DOMAIN m |-> IF m[i].k = key THEN [k |-> key, v |-> val] ELSE m[i]]
    ELSE Append(m, [k |-> key, v |-> val])

MapDelete(m, key) == SelectSeq(m, LAMBDA e : e.k # key)

\* a shutdown that leaves the registry as it is
MapClearKeepsEntries(m) == m

\* onlineUsers.clear()
MapClear(m) == <<>>

\* every socket id stored in the registry
Registered(m) == UNION {m[i].v : i \in DOMAIN m}

----------------------------------------------------------------------------
(* addSocket / removeSocket *)

addSocket(m, u, h) ==
  MapSet(m, u, (IF MapHas(m, u) THEN MapGet(m, u) ELSE {}) \cup {h})

\* removeSocket that forgets to drop the entry of a set that became empty
removeSocketKeepsEmpty(m, u, h) ==
  IF ~MapHas(m, u) THEN m ELSE MapSet(m, u, MapGet(m, u) \ {h})

\* the registry after removeSocket(u, h)
removeSocket(m, u, h) ==
  IF ~MapHas(m, u) THEN m
  ELSE IF MapGet(m, u) \ {h} = {} THEN MapDelete(m, u)
  ELSE MapSet(m, u, MapGet(m, u) \ {h})

\* the value removeSocket(u, h) returns: 0 without an entry, else the set's size
removeSocketRemaining(m, u, h) ==
  IF ~MapHas(m, u) THEN 0 ELSE Cardinality(MapGet(m, u) \ {h})

----------------------------------------------------------------------------
(* runCleanup, the synchronous forEach *)

\* the liveness oracle: io.sockets.sockets.get(id) exists and is connected
IsAlive(h) == sock[h] = "live"

AliveOf(set) == {h \in set : IsAlive(h)}

\* the registry after the forEach: sets with a live socket are replaced by alive
SweepMap(m) ==
  [i \in DOMAIN m |->
     IF AliveOf(m[i].v) = {} THEN m[i] ELSE [k |-> m[i].k, v |-> AliveOf(m[i].v)]]

KeysOf(entries) == [i \in DOMAIN entries |-> entries[i].k]

\* disconnectedUsers: the keys whose alive set is empty, in Map order
SweepDisconnected(m) == KeysOf(SelectSeq(m, LAMBDA e : AliveOf(e.v) = {}))

----------------------------------------------------------------------------
(* The chat store and the chat handlers *)

\* chat requests (HTTP requests and socket events) that are ever received
MaxOps == 2

\* LIMITS.MAX_MESSAGE_LENGTH
MAX_MESSAGE_LENGTH == 2000

\* the chat handlers that can be in flight at once
Procs == {1, 2}

NoUser == "none"

\* a paid subscription that is active and ends in the future
ProfilePaid ==
  [exists |-> TRUE, isSuspended |-> FALSE, isActive |-> TRUE, isPremium |-> TRUE,
   premiumExpiry |-> "none", subPlan |-> "monthly", subActive |-> TRUE,
   subEnd |-> "future"]

\* a stale isPremium flag: no subscription snapshot and no expiry
ProfileBareFlag ==
  [exists |-> TRUE, isSuspended |-> FALSE, isActive |-> TRUE, isPremium |-> TRUE,
   premiumExpiry |-> "none", subPlan |-> "free", subActive |-> FALSE,
   subEnd |-> "none"]

Profiles == {ProfilePaid, ProfileBareFlag}

\* a paid account that was suspended, one that was deactivated, and an id for
\* which User.findById returns null
ProfileSuspended == [ProfilePaid EXCEPT !.isSuspended = TRUE]

ProfileInactive == [ProfilePaid EXCEPT !.isActive = FALSE]

ProfileMissing == [ProfilePaid EXCEPT !.exists = FALSE]

AllProfiles ==
  Profiles \cup {ProfileSuspended, ProfileInactive, ProfileMissing}

\* a stored date: not set, unparsable, or a time before, at or after the check
Dates == {"none", "invalid", "past", "now", "future"}

\* subscription.plan; "none" when the record has no subscription object
Plans == {"none", "free", "monthly", "yearly"}

\* the user records hasPremiumAccess may be given
UserRecords ==
  {r \in [exists : BOOLEAN, isSuspended : {FALSE}, isActive : {TRUE}, isPremium : BOOLEAN,
          premiumExpiry : Dates, subPlan : Plans, subActive : BOOLEAN, subEnd : Dates] :
     r.subPlan = "none" => (~r.subActive /\ r.subEnd = "none")}

\* !Number.isNaN(new Date(d).valueOf())
ValidDate(d) == d \in {"past", "now", "future"}

\* new Date() < new Date(d), for a date that is set
InFuture(d) == d = "future"

\* the isPremium flag trusted without an expiry
hasPremiumAccessTrustsFlag(user) ==
  user.exists /\ (user.isPremium \/ InFuture(user.premiumExpiry))

hasPremiumAccess(user) ==
  LET subActive == /\ user.subActive = TRUE /\ user.subEnd # "none"
                   /\ ValidDate(user.subEnd) /\ InFuture(user.subEnd)
      hasPaidSnapshot == user.subPlan \in {"monthly", "yearly"} \/ user.subEnd # "none"
  IN IF ~user.exists THEN FALSE
     ELSE IF hasPaidSnapshot THEN subActive
     ELSE IF user.premiumExpiry # "none" /\ InFuture(user.premiumExpiry) THEN TRUE
     ELSE IF user.isPremium /\ user.premiumExpiry # "none" THEN InFuture(user.premiumExpiry)
     ELSE FALSE

(* message content: a value that is a string or not, and its characters *)
NotAString == [isString |-> FALSE, chars |-> <<>>]

Str(cs) == [isString |-> TRUE, chars |-> cs]

\* a string is kept as its runs: Rep(c, n) is n times the character c
Rep(c, n) == [c |-> c, n |-> n]

ContentInputs == {NotAString, Str(<<Rep(" ", 1)>>), Str(<<Rep(" ", 1), Rep("x", 1)>>)}

\* String.prototype.length
RECURSIVE Length(_)
Length(cs) == IF cs = <<>> THEN 0 ELSE Head(cs).n + Length(Tail(cs))

RECURSIVE TrimStart(_)
TrimStart(cs) ==
  IF cs # <<>> /\ (Head(cs).c = " " \/ Head(cs).n = 0) THEN TrimStart(Tail(cs)) ELSE cs

RECURSIVE TrimEnd(_)
TrimEnd(cs) ==
  IF cs # <<>> /\ (cs[Len(cs)].c = " " \/ cs[Len(cs)].n = 0)
    THEN TrimEnd(SubSeq(cs, 1, Len(cs) - 1)) ELSE cs

\* String.prototype.trim
Trim(cs) == TrimEnd(TrimStart(cs))

(* conversation documents *)
Range(f) == {f[i] : i \in DOMAIN f}

\* unreadCount.get(u) || 0
GetUnread(unread, u) == IF u \in DOMAIN unread THEN unread[u] ELSE 0

\* unreadCount.set(u, n), $set and $inc of unreadCount.<u>
SetUnread(unread, u, n) ==
  [x \in DOMAIN unread \cup {u} |-> IF x = u THEN n ELSE unread[x]]

\* Conversation.create({participants, unreadCount}) with the schema defaults
\* (deleted: the document was removed by deleteOne)
NewConversation(a, b, unread) ==
  [participants |-> <<a, b>>, unread |-> unread, lastMessage |-> 0,
   isBlocked |-> FALSE, blockedBy |-> NoUser, held |-> {}, deleted |-> FALSE]

\* Conversation.findOne({participants: {$all: [a, b]}}): the first match, 0 for null
FindByPair(cs, a, b) ==
  LET hits == {i \in DOMAIN cs : /\ ~cs[i].deleted
                                 /\ {a, b} \subseteq Range(cs[i].participants)}
  IN IF hits = {} THEN 0 ELSE CHOOSE i \in hits : \A j \in hits : i <= j

\* Conversation.findOne({participants: {$all: [a, b]}, blockedBy: a})
FindBlockedBy(cs, a, b) ==
  LET hits == {i \in DOMAIN cs : /\ ~cs[i].deleted
                                 /\ {a, b} \subseteq Range(cs[i].participants)
                                 /\ cs[i].blockedBy = a}
  IN IF hits = {} THEN 0 ELSE CHOOSE i \in hits : \A j \in hits : i <= j

\* Conversation.findById(id), 0 for null
FindById(cs, id) == IF id \in DOMAIN cs /\ ~cs[id].deleted THEN id ELSE 0

\* Conversation.findOne({_id: id, participants: u})
FindByIdFor(cs, id, u) ==
  IF id \in DOMAIN cs /\ ~cs[id].deleted /\ u \in Range(cs[id].participants)
    THEN id ELSE 0

pickOtherUserId(participants, me) ==
  LET others == {i \in DOMAIN participants : participants[i] # me}
  IN IF others = {} THEN NoUser
     ELSE participants[CHOOSE i \in others : \A j \in others : i <= j]

(* the checks of the send pipeline: "ok", or the reason reported *)

\* the payload checks with the emptiness check on the untrimmed content
SocketValidateUntrimmed(cid, rcv, content) ==
  IF cid = 0 THEN "Invalid conversation ID"
  ELSE IF rcv = NoUser THEN "Invalid receiver ID"
  ELSE IF ~content.isString THEN "Content must be a string"
  ELSE IF content.chars = <<>> THEN "Message cannot be empty"
  ELSE IF Length(Trim(content.chars)) > MAX_MESSAGE_LENGTH THEN "Message too long"
  ELSE "ok"

\* send_message: the payload checks before the first await
SocketValidate(cid, rcv, content) ==
  IF cid = 0 THEN "Invalid conversation ID"
  ELSE IF rcv = NoUser THEN "Invalid receiver ID"
  ELSE IF ~content.isString THEN "Content must be a string"
  ELSE IF Trim(content.chars) = <<>> THEN "Message cannot be empty"
  ELSE IF Length(Trim(content.chars)) > MAX_MESSAGE_LENGTH THEN "Message too long"
  ELSE "ok"

\* the sender checks without the entitlement check
SenderCheckNoEntitlement(sender) ==
  IF ~sender.exists THEN "User not found"
  ELSE IF sender.isSuspended THEN "Account suspended"
  ELSE IF sender.isActive = FALSE THEN "Account inactive"
  ELSE "ok"

\* send_message: the checks on the sender snapshot
SenderCheck(sender) ==
  IF ~sender.exists THEN "User not found"
  ELSE IF sender.isSuspended THEN "Account suspended"
  ELSE IF sender.isActive = FALSE THEN "Account inactive"
  ELSE IF ~hasPremiumAccess(sender) THEN "Premium subscription required"
  ELSE "ok"

\* send_message: the checks on the receiver snapshot
ReceiverCheck(receiver) ==
  IF ~receiver.exists THEN "Receiver not found"
  ELSE IF receiver.isSuspended \/ receiver.isActive = FALSE THEN "Cannot message this user"
  ELSE "ok"

\* send_message: the checks on the conversation read by id
ConversationCheck(cs, cid, u, rcv) ==
  IF FindById(cs, cid) = 0 THEN "Conversation not found"
  ELSE IF cs[cid].isBlocked THEN "Conversation is blocked"
  ELSE IF ~(u \in Range(cs[cid].participants) /\ rcv \in Range(cs[cid].participants))
    THEN "Not authorized"
  ELSE "ok"

\* protect: the checks on the account of the token's user (the token of an
\* HTTP request verifies)
Protect(user) ==
  IF ~user.exists THEN "User not found"
  ELSE IF user.isSuspended THEN "Account suspended"
  ELSE IF user.isActive = FALSE THEN "Account inactive"
  ELSE "ok"

\* sendMessage (HTTP): protect, then the checks before the first store read
HttpValidate(user, cid, rcv, content, me) ==
  IF Protect(user) # "ok" THEN Protect(user)
  ELSE IF (IF content.isString THEN Trim(content.chars) ELSE <<>>) = <<>>
    THEN "Content is required"
  ELSE IF Length(Trim(content.chars)) > MAX_MESSAGE_LENGTH THEN "Message too long"
  ELSE IF ~hasPremiumAccess(user) THEN "Premium subscription required"
  ELSE IF cid # 0 THEN "ok"
  ELSE IF rcv = NoUser THEN "Valid receiverId required"
  ELSE IF rcv = me THEN "Cannot message yourself"
  ELSE "ok"

(* the handlers' records *)
Idle ==
  [op |-> "none", via |-> "http", pc |-> "idle", user |-> NoUser, handle |-> 0,
   cid |-> 0, peer |-> NoUser, loaded |-> 0, wrote |-> FALSE, msg |-> 0,
   unreadAtStart |-> {}, crossed |-> FALSE, clientId |-> ""]

\* no handler has returned yet
NoLast ==
  [op |-> "none", via |-> "http", user |-> NoUser, handle |-> 0, result |-> "",
   emits |-> {}, wrote |-> FALSE, clientId |-> ""]

\* a request is taken by the first handler slot that is free
Free(p) == req[p].pc = "idle" /\ \A q \in Procs : q < p => req[q].pc # "idle"

\* a handler starts: its locals
Started(op, via, u, h, cid, peer, pc) ==
  [Idle EXCEPT !.op = op, !.via = via, !.pc = pc, !.user = u, !.handle = h,
               !.cid = cid, !.peer = peer]

\* a handler returns: its reply, what it emitted, whether it wrote to the store
Ended(r, result, events) ==
  [op |-> r.op, via |-> r.via, user |-> r.user, handle |-> r.handle,
   result |-> result, emits |-> events, wrote |-> r.wrote, clientId |-> r.clientId]

\* a message_error that does not carry the payload's clientId
MessageErrorNoClientId(h, clientId) ==
  {[ev |-> "message_error", to |-> <<"socket", h>>, clientId |-> ""]}

\* socket.emit('message_error', {error, clientId}) to the originating socket
MessageError(h, clientId) ==
  {[ev |-> "message_error", to |-> <<"socket", h>>, clientId |-> clientId]}

(* io.use: the handshake middleware *)

\* the credentials of a handshake: no token, a token whose signature does not
\* verify, an expired token, a token that verifies
Tokens == {"none", "badsig", "expired", "valid"}

\* a middleware that verifies the token and does not read the account
AuthenticateTokenOnly(token, account) ==
  IF token = "none" THEN "Authentication required"
  ELSE IF token = "expired" THEN "Token expired"
  ELSE IF token = "badsig" THEN "Invalid token"
  ELSE "ok"

\* the middleware's verdict: "ok" (next()), or the Error passed to next
Authenticate(token, account) ==
  IF token = "none" THEN "Authentication required"
  ELSE IF token = "expired" THEN "Token expired"
  ELSE IF token = "badsig" THEN "Invalid token"
  ELSE IF ~account.exists THEN "User not found"
  ELSE IF account.isSuspended THEN "Account suspended"
  ELSE IF account.isActive = FALSE THEN "Account inactive"
  ELSE "ok"

\* no chat request was received yet
NoRequest ==
  [kind |-> "none", via |-> "http", user |-> NoUser, handle |-> 0, cid |-> 0,
   rcv |-> NoUser, content |-> NotAString, clientId |-> "", seq |-> 0,
   hadConversation |-> FALSE]

\* every client holds a valid credential, no room is joined
EnvInit ==
  /\ cred = [h \in Handles |-> "valid"]
  /\ joined = [h \in Handles |-> {}]
  /\ inbox = NoRequest
  /\ emitted = <<>>

ChatTypeOK ==
  /\ accounts \in [Users -> AllProfiles \cup UserRecords]
  /\ \A i \in DOMAIN convs :
       /\ Range(convs[i].participants) \subseteq Users \cup {"C"}
       /\ DOMAIN convs[i].unread \subseteq Users \cup {"C"}
       /\ convs[i].isBlocked \in BOOLEAN
       /\ convs[i].blockedBy \in Users \cup {NoUser}
       /\ convs[i].lastMessage \in 0..Len(msgs)
       /\ convs[i].held \subseteq Users
       /\ convs[i].deleted \in BOOLEAN
  /\ inbox.kind \in {"none", "send", "markRead"}
  /\ \A i \in DOMAIN msgs :
       /\ msgs[i].conv \in DOMAIN convs
       /\ msgs[i].sender \in Users /\ msgs[i].receiver \in Users
       /\ msgs[i].isRead \in BOOLEAN
       /\ msgs[i].readAt \in 0..MaxOps
       /\ msgs[i].isDeleted \in BOOLEAN
  /\ DOMAIN req = Procs
  /\ \A p \in Procs : req[p].user \in Users \cup {NoUser}
  /\ ops \in 0..MaxOps
  /\ last.user \in Users \cup {NoUser}

----------------------------------------------------------------------------
TypeOK ==
  /\ onlineUsers \in Seq([k : Users, v : SUBSET Handles])
  /\ cleanupInterval \in BOOLEAN
  /\ sock \in [Handles -> {"new", "live", "dead", "refused"}]
  /\ cred \in [Handles -> Tokens]
  /\ joined \in [Handles -> SUBSET Nat]
  /\ emitted \in Seq(Nat)
  /\ announced \in [Users -> {"none", "online", "offline"}]
  /\ connPc \in [Handles -> {"idle", "await", "ready"}]
  /\ wasOnline \in [Handles -> BOOLEAN]
  /\ discPc \in [Handles -> {"idle", "await", "done"}]
  /\ reaperQueue \in Seq(Users)
  /\ shutdownPc \in {"idle", "await"}
  /\ shutdownUsers \subseteq Users
  /\ userOnline \in [Users -> BOOLEAN]
  /\ onlineEmitted \in [Handles -> BOOLEAN]
  /\ offlineEmits \in [Users -> Nat]
  /\ preEntry \in [Handles -> BOOLEAN]
  /\ transitions \in [Users -> Nat]
  /\ reaped \subseteq Users
  /\ reapedLive \subseteq Handles

PresenceInit ==
  /\ onlineUsers = <<>>
  /\ cleanupInterval = TRUE
  /\ sock = [h \in Handles |-> "new"]
  /\ connPc = [h \in Handles |-> "idle"]
  /\ wasOnline = [h \in Handles |-> FALSE]
  /\ discPc = [h \in Handles |-> "idle"]
  /\ reaperQueue = <<>>
  /\ shutdownPc = "idle"
  /\ shutdownUsers = {}
  /\ userOnline = [u \in Users |-> FALSE]
  /\ onlineEmitted = [h \in Handles |-> FALSE]
  /\ offlineEmits = [u \in Users |-> 0]
  /\ preEntry = [h \in Handles |-> FALSE]
  /\ transitions = [u \in Users |-> 0]
  /\ reaped = {}
  /\ reapedLive = {}
  /\ announced = [u \in Users |-> "none"]

\* history: the users whose entry disappears between registry m and registry n
Removed(m, n) == MapKeys(m) \ MapKeys(n)

CountRemoved(m, n) ==
  [u \in Users |-> IF u \in Removed(m, n) THEN transitions[u] + 1 ELSE transitions[u]]

----------------------------------------------------------------------------
(* io.on('connection'): wasOnline, addSocket, then the awaited status update *)

\* wasOnline read after addSocket instead of before it
WasOnlineAfterAdd(m, u) == TRUE

WasOnline(m, u) == MapHas(m, u)

\* socket ids are fresh: a user's handles are opened in increasing order
Connect(h) ==
  /\ sock[h] = "new"
  /\ Authenticate(cred[h], accounts[Owner(h)]) = "ok"
  /\ \A g \in Handles : (Owner(g) = Owner(h) /\ g < h) => sock[g] # "new"
  /\ sock' = [sock EXCEPT ![h] = "live"]
  /\ wasOnline' = [wasOnline EXCEPT ![h] = WasOnline(onlineUsers, Owner(h))]
  /\ preEntry' = [preEntry EXCEPT ![h] = \E i \in DOMAIN onlineUsers : onlineUsers[i].k = Owner(h)]
  /\ onlineUsers' = addSocket(onlineUsers, Owner(h), h)
  /\ connPc' = [connPc EXCEPT ![h] = "await"]
  /\ UNCHANGED <<chatVars, envVars>>
  /\ UNCHANGED <<cleanupInterval, discPc, reaperQueue, shutdownPc, shutdownUsers, userOnline, onlineEmitted, offlineEmits, transitions,
                 reaped, reapedLive>>

\* the update of User.isOnline settles (ok) or throws and is logged; then the
\* online broadcast, and the socket's handlers are registered
ConnectDone(h) ==
  /\ connPc[h] = "await"
  /\ \E ok \in BOOLEAN :
       userOnline' = IF ok THEN [userOnline EXCEPT ![Owner(h)] = TRUE] ELSE userOnline
  /\ onlineEmitted' = [onlineEmitted EXCEPT ![h] = ~wasOnline[h]]
  /\ announced' = IF wasOnline[h] THEN announced
                  ELSE [announced EXCEPT ![Owner(h)] = "online"]
  /\ connPc' = [connPc EXCEPT ![h] = "ready"]
  /\ UNCHANGED <<chatVars, cred, joined, inbox, emitted>>
  /\ UNCHANGED <<onlineUsers, cleanupInterval, sock, wasOnline, discPc, reaperQueue,
                 shutdownPc, shutdownUsers, offlineEmits, preEntry,
                 transitions, reaped, reapedLive>>

----------------------------------------------------------------------------
(* The connection ends *)

\* the connection closes and its 'disconnect' listener runs removeSocket
Disconnect(h) ==
  /\ sock[h] = "live"
  /\ connPc[h] = "ready"
  /\ sock' = [sock EXCEPT ![h] = "dead"]
  /\ onlineUsers' = removeSocket(onlineUsers, Owner(h), h)
  /\ discPc' = [discPc EXCEPT ![h] =
                  IF removeSocketRemaining(onlineUsers, Owner(h), h) = 0
                    THEN "await" ELSE "done"]
  /\ transitions' = CountRemoved(onlineUsers, onlineUsers')
  /\ joined' = [joined EXCEPT ![h] = {}]
  /\ UNCHANGED <<chatVars, cred, inbox, emitted, announced>>
  /\ UNCHANGED <<cleanupInterval, connPc, wasOnline, reaperQueue, shutdownPc,
                 shutdownUsers, userOnline, onlineEmitted, offlineEmits,
                 preEntry, reaped, reapedLive>>

\* after the awaited update of User.isOnline: the offline broadcast
DisconnectDone(h) ==
  /\ discPc[h] = "await"
  /\ \E ok \in BOOLEAN :
       userOnline' = IF ok THEN [userOnline EXCEPT ![Owner(h)] = FALSE] ELSE userOnline
  /\ offlineEmits' = [offlineEmits EXCEPT ![Owner(h)] = @ + 1]
  /\ announced' = [announced EXCEPT ![Owner(h)] = "offline"]
  /\ discPc' = [discPc EXCEPT ![h] = "done"]
  /\ UNCHANGED <<chatVars, cred, joined, inbox, emitted>>
  /\ UNCHANGED <<onlineUsers, cleanupInterval, sock, connPc, wasOnline, reaperQueue,
                 shutdownPc, shutdownUsers, onlineEmitted, preEntry,
                 transitions, reaped, reapedLive>>

\* the connection ends with no 'disconnect' delivered to a listener: the peer
\* vanished, or the socket closed while the connection handler was still awaiting
\* and had not yet registered its listener
SilentDeath(h) ==
  /\ sock[h] = "live"
  /\ sock' = [sock EXCEPT ![h] = "dead"]
  /\ joined' = [joined EXCEPT ![h] = {}]
  /\ UNCHANGED <<chatVars, cred, inbox, emitted, announced>>
  /\ UNCHANGED <<onlineUsers, cleanupInterval, connPc, wasOnline, discPc, reaperQueue,
                 shutdownPc, shutdownUsers, userOnline, onlineEmitted,
                 offlineEmits, preEntry, transitions, reaped, reapedLive>>

----------------------------------------------------------------------------
(* runCleanup *)

\* the timer fires: the forEach, and the loop up to its first await
ReapStart ==
  /\ cleanupInterval
  /\ reaperQueue = <<>>
  /\ LET swept == SweepMap(onlineUsers)
         gone  == SweepDisconnected(onlineUsers)
     IN /\ reaperQueue' = gone
        /\ onlineUsers' = IF gone = <<>> THEN swept ELSE MapDelete(swept, Head(gone))
        /\ reaped' = IF gone = <<>> THEN reaped ELSE reaped \cup {Head(gone)}
  /\ transitions' = CountRemoved(onlineUsers, onlineUsers')
  /\ reapedLive' = reapedLive \cup
                     {h \in Registered(onlineUsers) \ Registered(onlineUsers') : IsAlive(h)}
  /\ UNCHANGED <<chatVars, envVars>>
  /\ UNCHANGED <<cleanupInterval, sock, connPc, wasOnline, discPc, shutdownPc,
                 shutdownUsers, userOnline, onlineEmitted, offlineEmits,
                 preEntry>>

\* the awaited update of the head user settles or throws; the loop goes on to
\* delete the next user of disconnectedUsers
ReapStep ==
  /\ reaperQueue # <<>>
  /\ \E ok \in BOOLEAN :
       userOnline' = IF ok THEN [userOnline EXCEPT ![Head(reaperQueue)] = FALSE]
                     ELSE userOnline
  /\ reaperQueue' = Tail(reaperQueue)
  /\ onlineUsers' = IF Tail(reaperQueue) = <<>> THEN onlineUsers
                    ELSE MapDelete(onlineUsers, Head(Tail(reaperQueue)))
  /\ reaped' = IF Tail(reaperQueue) = <<>> THEN reaped
               ELSE reaped \cup ({Head(Tail(reaperQueue))} \cap MapKeys(onlineUsers))
  /\ transitions' = CountRemoved(onlineUsers, onlineUsers')
  /\ reapedLive' = reapedLive \cup
                     {h \in Registered(onlineUsers) \ Registered(onlineUsers') : IsAlive(h)}
  /\ UNCHANGED <<chatVars, envVars>>
  /\ UNCHANGED <<cleanupInterval, sock, connPc, wasOnline, discPc, shutdownPc,
                 shutdownUsers, onlineEmitted, offlineEmits, preEntry>>

----------------------------------------------------------------------------
(* cleanup *)

Shutdown ==
  /\ shutdownPc = "idle"
  /\ cleanupInterval' = FALSE
  /\ shutdownUsers' = MapKeys(onlineUsers)
  /\ shutdownPc' = "await"
  /\ UNCHANGED <<chatVars, envVars>>
  /\ UNCHANGED <<onlineUsers, sock, connPc, wasOnline, discPc, reaperQueue, userOnline,
                 onlineEmitted, offlineEmits, preEntry, transitions, reaped, reapedLive>>

\* Promise.all settles (each update settled or threw and was logged): clear()
ShutdownDone ==
  /\ shutdownPc = "await"
  /\ \E okUsers \in SUBSET shutdownUsers :
       userOnline' = [u \in Users |-> IF u \in okUsers THEN FALSE ELSE userOnline[u]]
  /\ onlineUsers' = MapClear(onlineUsers)
  /\ transitions' = CountRemoved(onlineUsers, onlineUsers')
  /\ shutdownPc' = "idle"
  /\ shutdownUsers' = {}
  /\ UNCHANGED <<chatVars, envVars>>
  /\ UNCHANGED <<cleanupInterval, sock, connPc, wasOnline, discPc, reaperQueue, onlineEmitted, offlineEmits, preEntry, reaped, reapedLive>>

----------------------------------------------------------------------------
(* The store updates of the chat handlers *)

\* Message.create: the new document (held: a block stood when it was created)
NewMessage(cid, from, to) ==
  [conv |-> cid, sender |-> from, receiver |-> to, isRead |-> FALSE, readAt |-> 0,
   isDeleted |-> FALSE, heldAtCreate |-> convs[cid].held # {}]

\* send_message: findByIdAndUpdate with $inc of the receiver's counter; it
\* matches nothing once the document was removed
IncUnread(conv, rcv, m) ==
  IF conv.deleted THEN conv
  ELSE [conv EXCEPT !.unread = SetUnread(@, rcv, GetUnread(@, rcv) + 1),
                    !.lastMessage = m]

\* sendMessage: conversation.save() writes the paths the handler modified
SaveSend(conv, rcv, loaded, m) ==
  [conv EXCEPT !.unread = SetUnread(@, rcv, loaded + 1), !.lastMessage = m]

\* an update whose filter leaves out isRead: false
FlagReadStamps(ms, cid, u, now) ==
  [i \in DOMAIN ms |->
     IF ms[i].conv = cid /\ ms[i].receiver = u
       THEN [ms[i] EXCEPT !.isRead = TRUE, !.readAt = now] ELSE ms[i]]

\* Message.updateMany({conversationId, receiverId: u, isRead: false},
\*                    {isRead: true, readAt: new Date()})
FlagRead(ms, cid, u, now) ==
  [i \in DOMAIN ms |->
     IF ms[i].conv = cid /\ ms[i].receiver = u /\ ~ms[i].isRead
       THEN [ms[i] EXCEPT !.isRead = TRUE, !.readAt = now] ELSE ms[i]]

\* a reset that zeroes every counter of the conversation
ResetUnreadAll(conv, u) ==
  [conv EXCEPT !.unread = [x \in DOMAIN conv.unread \cup {u} |-> 0]]

\* $set of unreadCount.<u> to 0; it matches nothing once the document was
\* removed
ResetUnread(conv, u) ==
  IF conv.deleted THEN conv ELSE [conv EXCEPT !.unread = SetUnread(@, u, 0)]

----------------------------------------------------------------------------
(* How a handler step ends *)

\* the handler awaits its next store operation
Continue(p, r) ==
  /\ req' = [req EXCEPT ![p] = r]
  /\ last' = NoLast

\* the handler returns
Return(p, r, result, events) ==
  /\ req' = [req EXCEPT ![p] = Idle]
  /\ last' = Ended(r, result, events)

\* a socket handler that fails a check reports to its socket and returns
CheckedSocket(p, r, reason) ==
  IF reason # "ok" THEN Return(p, r, reason, MessageError(r.handle, r.clientId))
  ELSE Continue(p, r)

\* a request is received
Receive == ops < MaxOps /\ ops' = ops + 1

----------------------------------------------------------------------------
(* socket 'send_message' *)

\* the payload checks, then the read of the sender and the checks on it
SocketSend(p, h, cid, rcv, content, clientId) ==
  /\ Free(p) /\ Receive
  /\ sock[h] = "live" /\ connPc[h] = "ready"
  /\ LET v == SocketValidate(cid, rcv, content)
         r == Started("send", "socket", Owner(h), h, cid, rcv, "receiver")
     IN CheckedSocket(p, [r EXCEPT !.clientId = clientId],
                      IF v # "ok" THEN v ELSE SenderCheck(accounts[Owner(h)]))
  /\ UNCHANGED <<accounts, convs, msgs>>
  /\ UNCHANGED <<presenceVars, envVars>>

\* the read of the receiver and the checks on it
SocketSendReceiver(p) ==
  /\ req[p].op = "send" /\ req[p].pc = "receiver"
  /\ CheckedSocket(p, [req[p] EXCEPT !.pc = "conv"], ReceiverCheck(accounts[req[p].peer]))
  /\ UNCHANGED <<accounts, convs, msgs, ops>>
  /\ UNCHANGED <<presenceVars, envVars>>

\* the read of the conversation and the checks on it
SocketSendConversation(p) ==
  /\ req[p].op = "send" /\ req[p].pc = "conv"
  /\ CheckedSocket(p, [req[p] EXCEPT !.pc = "create"],
                   ConversationCheck(convs, req[p].cid, req[p].user, req[p].peer))
  /\ UNCHANGED <<accounts, convs, msgs, ops>>
  /\ UNCHANGED <<presenceVars, envVars>>

\* Message.create
SocketSendCreate(p) ==
  /\ req[p].op = "send" /\ req[p].pc = "create"
  /\ msgs' = Append(msgs, NewMessage(req[p].cid, req[p].user, req[p].peer))
  /\ Continue(p, [req[p] EXCEPT !.pc = "inc", !.msg = Len(msgs) + 1, !.wrote = TRUE])
  /\ UNCHANGED <<accounts, convs, ops>>
  /\ UNCHANGED <<presenceVars, envVars>>

\* the events of a sent message: new_message to the room, message_notification
\* to every socket the registry holds for the receiver
SendEvents(cid, rcv, clientId) ==
  {[ev |-> "new_message", to |-> <<"room", cid>>, clientId |-> clientId]}
    \cup {[ev |-> "message_notification", to |-> <<"socket", h>>, clientId |-> ""] :
            h \in (IF MapHas(onlineUsers, rcv) THEN MapGet(onlineUsers, rcv) ELSE {})}

\* Conversation.findByIdAndUpdate with $inc, then the emits
SocketSendInc(p) ==
  /\ req[p].op = "send" /\ req[p].pc = "inc"
  /\ convs' = [convs EXCEPT ![req[p].cid] = IncUnread(@, req[p].peer, req[p].msg)]
  /\ Return(p, req[p], "ok", SendEvents(req[p].cid, req[p].peer, req[p].clientId))
  /\ emitted' = Append(emitted, req[p].msg)
  /\ UNCHANGED <<accounts, msgs, ops>>
  /\ UNCHANGED <<presenceVars, cred, joined, inbox, announced>>

----------------------------------------------------------------------------
(* POST /api/chat/message: sendMessage *)

\* the request of an authenticated user: the checks on the body and on req.user,
\* then the read of the conversation (by id, or by the pair)
HttpSend(p, u, cid, rcv, content) ==
  /\ Free(p) /\ Receive
  /\ LET r == Started("send", "http", u, 0, cid, rcv, "hcreate")
         v == HttpValidate(accounts[u], cid, rcv, content, u)
         f == IF cid # 0 THEN FindByIdFor(convs, cid, u) ELSE FindByPair(convs, u, rcv)
         other == pickOtherUserId(convs[f].participants, u)
     IN IF v # "ok" THEN Return(p, r, v, {})
        ELSE IF f = 0 /\ cid # 0 THEN Return(p, r, "Conversation not found", {})
        ELSE IF f = 0 THEN Continue(p, [r EXCEPT !.pc = "hnewconv"])
        ELSE IF convs[f].isBlocked THEN Return(p, r, "Conversation is blocked", {})
        ELSE Continue(p, [r EXCEPT !.cid = f, !.peer = other,
                                   !.loaded = GetUnread(convs[f].unread, other)])
  /\ UNCHANGED <<accounts, convs, msgs>>
  /\ UNCHANGED <<presenceVars, envVars>>

\* Conversation.create({participants: [userId, receiverId]})
HttpSendNewConversation(p) ==
  /\ req[p].op = "send" /\ req[p].pc = "hnewconv"
  /\ convs' = Append(convs, NewConversation(req[p].user, req[p].peer, <<>>))
  /\ Continue(p, [req[p] EXCEPT
                    !.pc = "hcreate", !.cid = Len(convs) + 1, !.loaded = 0, !.wrote = TRUE,
                    !.peer = pickOtherUserId(<<req[p].user, req[p].peer>>, req[p].user)])
  /\ UNCHANGED <<accounts, msgs, ops>>
  /\ UNCHANGED <<presenceVars, envVars>>

\* Message.create
HttpSendCreate(p) ==
  /\ req[p].op = "send" /\ req[p].pc = "hcreate"
  /\ msgs' = Append(msgs, NewMessage(req[p].cid, req[p].user, req[p].peer))
  /\ Continue(p, [req[p] EXCEPT !.pc = "hsave", !.msg = Len(msgs) + 1, !.wrote = TRUE])
  /\ UNCHANGED <<accounts, convs, ops>>
  /\ UNCHANGED <<presenceVars, envVars>>

\* conversation.save(), then the 201 reply; save() rejects when the document
\* was removed, and handleControllerError replies
HttpSendSave(p) ==
  /\ req[p].op = "send" /\ req[p].pc = "hsave"
  /\ IF convs[req[p].cid].deleted
       THEN convs' = convs /\ Return(p, req[p], "Server error", {})
       ELSE /\ convs' = [convs EXCEPT ![req[p].cid] =
                          SaveSend(@, req[p].peer, req[p].loaded, req[p].msg)]
            /\ Return(p, req[p], "ok", {})
  /\ UNCHANGED <<accounts, msgs, ops>>
  /\ UNCHANGED <<presenceVars, envVars>>

----------------------------------------------------------------------------
(* GET /api/chat/with/:participantId: getOrCreateConversation *)

GetOrCreate(p, u, other) ==
  /\ Free(p) /\ Receive
  /\ LET r == Started("getOrCreate", "http", u, 0, FindByPair(convs, u, other), other,
                      "gcreate")
     IN IF other = u THEN Return(p, r, "Cannot create conversation with yourself", {})
        ELSE IF r.cid # 0 THEN Return(p, r, "ok", {})
        ELSE Continue(p, r)
  /\ UNCHANGED <<accounts, convs, msgs>>
  /\ UNCHANGED <<presenceVars, envVars>>

\* Conversation.create with a zeroed unread map for both participants
GetOrCreateCreate(p) ==
  /\ req[p].op = "getOrCreate" /\ req[p].pc = "gcreate"
  /\ convs' = Append(convs, NewConversation(req[p].user, req[p].peer,
                                            [x \in {req[p].user, req[p].peer} |-> 0]))
  /\ Return(p, [req[p] EXCEPT !.wrote = TRUE], "ok", {})
  /\ UNCHANGED <<accounts, msgs, ops>>
  /\ UNCHANGED <<presenceVars, envVars>>

----------------------------------------------------------------------------
(* socket 'mark_read' (h is the socket) and PUT /:conversationId/read (h = 0) *)

\* socket.emit('error', ...) of mark_read; the HTTP handler replies instead
MarkReadError(h) ==
  IF h = 0 THEN {} ELSE {[ev |-> "error", to |-> <<"socket", h>>, clientId |-> ""]}

MarkRead(p, u, h, cid) ==
  /\ Free(p) /\ Receive
  /\ h # 0 => (Owner(h) = u /\ sock[h] = "live" /\ connPc[h] = "ready")
  /\ LET r == Started("markRead", IF h = 0 THEN "http" ELSE "socket", u, h, cid, NoUser,
                      "mupdate")
     IN IF cid = 0 THEN Return(p, r, "Invalid conversation ID", MarkReadError(h))
        ELSE IF FindByIdFor(convs, cid, u) = 0
          THEN Return(p, r, "Conversation not found", MarkReadError(h))
        ELSE Continue(p, [r EXCEPT !.unreadAtStart =
               {i \in DOMAIN msgs : /\ msgs[i].conv = cid /\ msgs[i].receiver = u
                                    /\ ~msgs[i].isRead}])
  /\ UNCHANGED <<accounts, convs, msgs>>
  /\ UNCHANGED <<presenceVars, envVars>>

\* Message.updateMany
MarkReadMessages(p) ==
  /\ req[p].op = "markRead" /\ req[p].pc = "mupdate"
  /\ msgs' = FlagRead(msgs, req[p].cid, req[p].user, ops)
  /\ Continue(p, [req[p] EXCEPT !.pc = "mreset", !.wrote = TRUE])
  /\ UNCHANGED <<accounts, convs, ops>>
  /\ UNCHANGED <<presenceVars, envVars>>

\* the counter reset, then messages_read to the room (socket) or the reply; a
\* send in flight on the conversation has from here on a markRead between its
\* start and its end (crossed)
MarkReadReset(p) ==
  /\ req[p].op = "markRead" /\ req[p].pc = "mreset"
  /\ convs' = [convs EXCEPT ![req[p].cid] = ResetUnread(@, req[p].user)]
  /\ req' = [q \in Procs |->
               IF q = p THEN Idle
               ELSE IF req[q].op = "send" /\ req[q].cid = req[p].cid
                 THEN [req[q] EXCEPT !.crossed = TRUE]
               ELSE req[q]]
  /\ last' = Ended(req[p], "ok",
                   IF req[p].via = "socket"
                     THEN {[ev |-> "messages_read", to |-> <<"room", req[p].cid>>,
                            clientId |-> ""]}
                     ELSE {})
  /\ UNCHANGED <<accounts, msgs, ops>>
  /\ UNCHANGED <<presenceVars, envVars>>

----------------------------------------------------------------------------
(* POST /block/:userId and /unblock/:userId *)

Block(p, u, target) ==
  /\ Free(p) /\ Receive
  /\ LET r == Started("block", "http", u, 0, FindByPair(convs, u, target), NoUser, "bsave")
     IN IF r.cid = 0 THEN Return(p, r, "ok", {}) ELSE Continue(p, r)
  /\ UNCHANGED <<accounts, convs, msgs>>
  /\ UNCHANGED <<presenceVars, envVars>>

\* conversation.save(); from here on the caller holds a block on the conversation
BlockSave(p) ==
  /\ req[p].op = "block" /\ req[p].pc = "bsave"
  /\ convs' = [convs EXCEPT ![req[p].cid] =
                 [@ EXCEPT !.isBlocked = TRUE, !.blockedBy = req[p].user,
                           !.held = @ \cup {req[p].user}]]
  /\ Return(p, [req[p] EXCEPT !.wrote = TRUE], "ok", {})
  /\ UNCHANGED <<accounts, msgs, ops>>
  /\ UNCHANGED <<presenceVars, envVars>>

\* the lookup matches only a conversation whose blockedBy is the caller; a caller
\* who asks to unblock no longer holds a block on the conversations of the pair
Unblock(p, u, target) ==
  /\ Free(p) /\ Receive
  /\ LET r == Started("unblock", "http", u, 0, FindBlockedBy(convs, u, target), NoUser,
                      "usave")
     IN IF r.cid = 0 THEN Return(p, r, "ok", {}) ELSE Continue(p, r)
  /\ convs' = IF FindBlockedBy(convs, u, target) # 0 THEN convs
              ELSE [c \in DOMAIN convs |->
                      IF {u, target} \subseteq Range(convs[c].participants)
                        THEN [convs[c] EXCEPT !.held = @ \ {u}] ELSE convs[c]]
  /\ UNCHANGED <<accounts, msgs>>
  /\ UNCHANGED <<presenceVars, envVars>>

UnblockSave(p) ==
  /\ req[p].op = "unblock" /\ req[p].pc = "usave"
  /\ convs' = [convs EXCEPT ![req[p].cid] =
                 [@ EXCEPT !.isBlocked = FALSE, !.blockedBy = NoUser,
                           !.held = @ \ {req[p].user}]]
  /\ Return(p, [req[p] EXCEPT !.wrote = TRUE], "ok", {})
  /\ UNCHANGED <<accounts, msgs, ops>>
  /\ UNCHANGED <<presenceVars, envVars>>

----------------------------------------------------------------------------
\* conversationId of a request: 0 for none, the ids in the store, one id that
\* is not in the store
ConvIds == 0..(Len(convs) + 1)

\* a request can be received: a handler slot is free and the budget is not spent
CanReceive(p) == Free(p) /\ ops < MaxOps

ChatNext ==
  \/ \E p \in Procs : CanReceive(p) /\
        \E h \in Handles, cid \in ConvIds, rcv \in Users \cup {NoUser},
           content \in ContentInputs : SocketSend(p, h, cid, rcv, content, "t1")
  \/ \E p \in Procs : SocketSendReceiver(p)
  \/ \E p \in Procs : SocketSendConversation(p)
  \/ \E p \in Procs : SocketSendCreate(p)
  \/ \E p \in Procs : SocketSendInc(p)
  \/ \E p \in Procs : CanReceive(p) /\
        \E u \in Users, cid \in ConvIds, rcv \in Users \cup {NoUser},
           content \in ContentInputs : HttpSend(p, u, cid, rcv, content)
  \/ \E p \in Procs : HttpSendNewConversation(p)
  \/ \E p \in Procs : HttpSendCreate(p)
  \/ \E p \in Procs : HttpSendSave(p)
  \/ \E p \in Procs : CanReceive(p) /\
        \E u \in Users, other \in Users : GetOrCreate(p, u, other)
  \/ \E p \in Procs : GetOrCreateCreate(p)
  \/ \E p \in Procs : CanReceive(p) /\
        \E u \in Users, h \in {0} \cup Handles, cid \in ConvIds : MarkRead(p, u, h, cid)
  \/ \E p \in Procs : MarkReadMessages(p)
  \/ \E p \in Procs : MarkReadReset(p)
  \/ \E p \in Procs : CanReceive(p) /\
        \E u \in Users, target \in Users : Block(p, u, target)
  \/ \E p \in Procs : BlockSave(p)
  \/ \E p \in Procs : CanReceive(p) /\
        \E u \in Users, target \in Users : Unblock(p, u, target)
  \/ \E p \in Procs : UnblockSave(p)

\* the chat store before any request, both users entitled
ChatInit ==
  /\ EnvInit
  /\ accounts = [u \in Users |-> ProfilePaid]
  /\ convs = <<>>
  /\ msgs = <<>>
  /\ req = [p \in Procs |-> Idle]
  /\ ops = 0
  /\ last = NoLast

\* the registry once A (socket 1) and B (socket 2) are connected and their
\* handlers registered
TwoConnected ==
  /\ onlineUsers = <<[k |-> "A", v |-> {1}], [k |-> "B", v |-> {2}]>>
  /\ cleanupInterval = TRUE
  /\ sock = [h \in Handles |-> IF h \in {1, 2} THEN "live" ELSE "new"]
  /\ connPc = [h \in Handles |-> IF h \in {1, 2} THEN "ready" ELSE "idle"]
  /\ wasOnline = [h \in Handles |-> FALSE]
  /\ discPc = [h \in Handles |-> "idle"]
  /\ reaperQueue = <<>>
  /\ shutdownPc = "idle"
  /\ shutdownUsers = {}
  /\ userOnline = [u \in Users |-> TRUE]
  /\ onlineEmitted = [h \in Handles |-> h \in {1, 2}]
  /\ offlineEmits = [u \in Users |-> 0]
  /\ preEntry = [h \in Handles |-> FALSE]
  /\ transitions = [u \in Users |-> 0]
  /\ reaped = {}
  /\ reapedLive = {}
  /\ announced = [u \in Users |-> "online"]

\* both connected, A's account any of the profiles; the chat store is empty or
\* holds the conversation of the pair that getOrCreateConversation created
InitChat ==
  /\ TwoConnected
  /\ EnvInit
  /\ accounts \in {a \in [Users -> Profiles] : a["B"] = ProfilePaid}
  /\ convs \in {<<>>, <<NewConversation("A", "B", [x \in Users |-> 0])>>}
  /\ msgs = <<>>
  /\ req = [p \in Procs |-> Idle]
  /\ ops = 0
  /\ last = NoLast

\* the chat handlers while the two connections stay up
SpecChat == InitChat /\ [][ChatNext]_vars

----------------------------------------------------------------------------
PresenceNext ==
  \/ \E h \in Handles : Connect(h)
  \/ \E h \in Handles : ConnectDone(h)
  \/ \E h \in Handles : Disconnect(h)
  \/ \E h \in Handles : DisconnectDone(h)
  \/ \E h \in Handles : SilentDeath(h)
  \/ ReapStart
  \/ ReapStep
  \/ Shutdown
  \/ ShutdownDone

Init == PresenceInit /\ ChatInit

Next == PresenceNext

Spec == Init /\ [][Next]_vars

----------------------------------------------------------------------------
(* One send at a time, with its payload kept: SpecSend *)

\* a user of the system who is neither A nor B
Outsider == "C"

\* contents around the length limit: of the limit's length, one longer, and of
\* the limit's length once trimmed
LongContents ==
  {Str(<<Rep("x", MAX_MESSAGE_LENGTH)>>), Str(<<Rep("x", MAX_MESSAGE_LENGTH + 1)>>),
   Str(<<Rep(" ", 1), Rep("x", MAX_MESSAGE_LENGTH), Rep(" ", 1)>>)}

SendContents == ContentInputs \cup LongContents

\* clientId of a send_message payload
ClientIds == {"t1", "t2"}

\* the conversation of A and B, and one A takes no part in
StoreOpen ==
  <<NewConversation("A", "B", [x \in {"A", "B"} |-> 0]),
    NewConversation("B", Outsider, [x \in {"B", Outsider} |-> 0])>>

\* the same store after B blocked A
StoreBlocked ==
  [StoreOpen EXCEPT ![1] = [@ EXCEPT !.isBlocked = TRUE, !.blockedBy = "B",
                                     !.held = {"B"}]]

\* a request has been received and no handler has taken it yet
Pending == inbox.kind # "none" /\ inbox.seq = ops + 1

\* the sends A can request: over its socket 1 or over HTTP
SendRequests ==
  {[kind |-> "send", via |-> v, user |-> "A", handle |-> IF v = "socket" THEN 1 ELSE 0,
    cid |-> c, rcv |-> r, content |-> t,
    clientId |-> IF v = "socket" THEN k ELSE "", seq |-> ops + 1,
    hadConversation |-> FindByPair(convs, "A", r) # 0] :
     v \in {"socket", "http"}, c \in ConvIds, r \in Users \cup {NoUser},
     t \in SendContents, k \in ClientIds}

\* no handler runs, no reply is outstanding and the budget is not spent
CanArrive ==
  /\ \A p \in Procs : req[p].pc = "idle"
  /\ inbox.kind = "none" /\ ops < MaxOps

\* a client issues a request
Arrive(r) ==
  /\ CanArrive
  /\ inbox' = r
  /\ last' = NoLast
  /\ UNCHANGED <<accounts, convs, msgs, req, ops>>
  /\ UNCHANGED <<presenceVars, cred, joined, emitted, announced>>

\* the client has taken the reply (or the events) of its request
ReplyTaken ==
  /\ \A p \in Procs : req[p].pc = "idle"
  /\ inbox.kind # "none" /\ ~Pending
  /\ inbox' = NoRequest
  /\ last' = NoLast
  /\ UNCHANGED <<accounts, convs, msgs, req, ops>>
  /\ UNCHANGED <<presenceVars, cred, joined, emitted, announced>>

\* send_message: the read of the sender rejects, the catch block reports
SocketSendSenderThrows(p, h, cid, rcv, content, clientId) ==
  /\ Free(p) /\ Receive
  /\ sock[h] = "live" /\ connPc[h] = "ready"
  /\ SocketValidate(cid, rcv, content) = "ok"
  /\ LET r == Started("send", "socket", Owner(h), h, cid, rcv, "receiver")
     IN Return(p, [r EXCEPT !.clientId = clientId], "Failed to send message",
               MessageError(h, clientId))
  /\ UNCHANGED <<accounts, convs, msgs>>
  /\ UNCHANGED <<presenceVars, envVars>>

\* send_message: the store operation the handler awaits rejects, the catch
\* block reports
SocketSendThrows(p) ==
  /\ req[p].op = "send" /\ req[p].pc \in {"receiver", "conv", "create", "inc"}
  /\ Return(p, req[p], "Failed to send message",
            MessageError(req[p].handle, req[p].clientId))
  /\ UNCHANGED <<accounts, convs, msgs, ops>>
  /\ UNCHANGED <<presenceVars, envVars>>

\* sendMessage: the store operation the handler awaits rejects,
\* handleControllerError replies
HttpSendThrows(p) ==
  /\ req[p].op = "send" /\ req[p].pc \in {"hnewconv", "hcreate", "hsave"}
  /\ Return(p, req[p], "Server error", {})
  /\ UNCHANGED <<accounts, convs, msgs, ops>>
  /\ UNCHANGED <<presenceVars, envVars>>

SendNext ==
  \/ CanArrive /\ \E r \in SendRequests : Arrive(r)
  \/ ReplyTaken
  \/ \E p \in Procs : Pending /\ inbox.via = "socket" /\
        SocketSend(p, inbox.handle, inbox.cid, inbox.rcv, inbox.content, inbox.clientId)
  \/ \E p \in Procs : Pending /\ inbox.via = "socket" /\
        SocketSendSenderThrows(p, inbox.handle, inbox.cid, inbox.rcv, inbox.content,
                               inbox.clientId)
  \/ \E p \in Procs : SocketSendReceiver(p)
  \/ \E p \in Procs : SocketSendConversation(p)
  \/ \E p \in Procs : SocketSendCreate(p)
  \/ \E p \in Procs : SocketSendInc(p)
  \/ \E p \in Procs : SocketSendThrows(p)
  \/ \E p \in Procs : Pending /\ inbox.via = "http" /\
        HttpSend(p, inbox.user, inbox.cid, inbox.rcv, inbox.content)
  \/ \E p \in Procs : HttpSendNewConversation(p)
  \/ \E p \in Procs : HttpSendCreate(p)
  \/ \E p \in Procs : HttpSendSave(p)
  \/ \E p \in Procs : HttpSendThrows(p)

\* A and B connected; A's account and B's account in any state, the store empty,
\* with the conversation of A and B, or with that conversation blocked by B
InitSend ==
  /\ TwoConnected
  /\ EnvInit
  /\ accounts \in {a \in [Users -> AllProfiles] :
                     a["B"] \in {ProfilePaid, ProfileSuspended, ProfileMissing}}
  /\ convs \in {<<>>, StoreOpen, StoreBlocked}
  /\ msgs = <<>>
  /\ req = [p \in Procs |-> Idle]
  /\ ops = 0
  /\ last = NoLast

SpecSend == InitSend /\ [][SendNext]_vars

----------------------------------------------------------------------------
(* Rooms and fan-out: SpecFanout *)

\* socket 'join_conversation': the id check, the read of the conversation, the
\* participant check, socket.join and the acknowledgement
JoinConversation(h, cid) ==
  /\ sock[h] = "live" /\ connPc[h] = "ready"
  /\ LET r == Started("join", "socket", Owner(h), h, cid, NoUser, "idle")
         err == {[ev |-> "error", to |-> <<"socket", h>>, clientId |-> ""]}
     IN IF cid = 0 THEN last' = Ended(r, "Invalid conversation ID", err) /\ joined' = joined
        ELSE IF FindById(convs, cid) = 0
          THEN last' = Ended(r, "Conversation not found", err) /\ joined' = joined
        ELSE IF Owner(h) \notin Range(convs[cid].participants)
          THEN /\ last' = Ended(r, "Not authorized to join this conversation", err)
               /\ joined' = joined
        ELSE /\ joined' = [joined EXCEPT ![h] = @ \cup {cid}]
             /\ last' = Ended(r, "ok", {[ev |-> "joined_conversation",
                                         to |-> <<"socket", h>>, clientId |-> ""]})
  /\ UNCHANGED <<accounts, convs, msgs, req, ops>>
  /\ UNCHANGED <<presenceVars, cred, inbox, emitted, announced>>

\* socket 'leave_conversation' (leaving a room the socket is not in changes
\* nothing)
LeaveConversation(h, cid) ==
  /\ sock[h] = "live" /\ connPc[h] = "ready"
  /\ cid # 0 /\ cid \in joined[h]
  /\ joined' = [joined EXCEPT ![h] = @ \ {cid}]
  /\ UNCHANGED <<chatVars, presenceVars, cred, inbox, emitted, announced>>

\* the sockets an emitted event is delivered to: the live sockets in the room
\* for io.to(room), those but the emitting socket for socket.to(room), the
\* socket itself for socket.emit and io.to(socketId)
Delivered(e) ==
  IF e.to[1] = "room"
    THEN {h \in Handles : sock[h] = "live" /\ e.to[2] \in joined[h]}
  ELSE IF e.to[1] = "others"
    THEN {h \in Handles : sock[h] = "live" /\ e.to[2] \in joined[h] /\ h # e.to[3]}
  ELSE {h \in Handles : sock[h] = "live" /\ h = e.to[2]}

\* the events of kind ev that socket h receives from the handler that returned
Received(h, ev) == {e \in last.emits : e.ev = ev /\ h \in Delivered(e)}

\* the live sockets the registry holds for a user
LiveHandles(u) ==
  {h \in Handles : sock[h] = "live" /\ MapHas(onlineUsers, u) /\ h \in MapGet(onlineUsers, u)}

\* the registry once A (sockets 1 and 3) and B (socket 2) are connected
ThreeConnected ==
  /\ onlineUsers = <<[k |-> "A", v |-> {1, 3}], [k |-> "B", v |-> {2}]>>
  /\ cleanupInterval = TRUE
  /\ sock = [h \in Handles |-> IF h \in {1, 2, 3} THEN "live" ELSE "new"]
  /\ connPc = [h \in Handles |-> IF h \in {1, 2, 3} THEN "ready" ELSE "idle"]
  /\ wasOnline = [h \in Handles |-> h = 3]
  /\ discPc = [h \in Handles |-> "idle"]
  /\ reaperQueue = <<>>
  /\ shutdownPc = "idle"
  /\ shutdownUsers = {}
  /\ userOnline = [u \in Users |-> TRUE]
  /\ onlineEmitted = [h \in Handles |-> h \in {1, 2}]
  /\ offlineEmits = [u \in Users |-> 0]
  /\ preEntry = [h \in Handles |-> FALSE]
  /\ transitions = [u \in Users |-> 0]
  /\ reaped = {}
  /\ reapedLive = {}
  /\ announced = [u \in Users |-> "online"]

\* the store with one message of B that A has not read
StoreUnread == [StoreOpen EXCEPT ![1] = IncUnread(@, "A", 1)]

\* the message of B counted by StoreUnread
UnreadMessage ==
  [conv |-> 1, sender |-> "B", receiver |-> "A", isRead |-> FALSE, readAt |-> 0,
   isDeleted |-> FALSE, heldAtCreate |-> FALSE]

\* a send of u to its counterpart in conversation 1 and a markRead of u on it,
\* over one of u's sockets or over HTTP (handle 0)
FanoutRequestsOf(u) ==
  {[kind |-> k, via |-> IF h = 0 THEN "http" ELSE "socket", user |-> u, handle |-> h,
    cid |-> 1, rcv |-> IF k = "send" THEN pickOtherUserId(<<"A", "B">>, u) ELSE NoUser,
    content |-> Str(<<Rep("x", 1)>>), clientId |-> IF k = "send" /\ h # 0 THEN "t1" ELSE "",
    seq |-> ops + 1, hadConversation |-> TRUE] :
     k \in {"send", "markRead"}, h \in {0} \cup LiveHandles(u)}

FanoutRequests == UNION {FanoutRequestsOf(u) : u \in Users}

FanoutNext ==
  \/ CanArrive /\ \E r \in FanoutRequests : Arrive(r)
  \/ ReplyTaken
  \/ \E h \in Handles, cid \in 0..Len(convs) : JoinConversation(h, cid)
  \/ \E h \in Handles, cid \in DOMAIN convs : LeaveConversation(h, cid)
  \/ \E p \in Procs : Pending /\ inbox.kind = "send" /\ inbox.via = "socket" /\
        SocketSend(p, inbox.handle, inbox.cid, inbox.rcv, inbox.content, inbox.clientId)
  \/ \E p \in Procs : SocketSendReceiver(p)
  \/ \E p \in Procs : SocketSendConversation(p)
  \/ \E p \in Procs : SocketSendCreate(p)
  \/ \E p \in Procs : SocketSendInc(p)
  \/ \E p \in Procs : Pending /\ inbox.kind = "send" /\ inbox.via = "http" /\
        HttpSend(p, inbox.user, inbox.cid, inbox.rcv, inbox.content)
  \/ \E p \in Procs : HttpSendCreate(p)
  \/ \E p \in Procs : HttpSendSave(p)
  \/ \E p \in Procs : Pending /\ inbox.kind = "markRead" /\
        MarkRead(p, inbox.user, inbox.handle, inbox.cid)
  \/ \E p \in Procs : MarkReadMessages(p)
  \/ \E p \in Procs : MarkReadReset(p)

\* three sockets connected, no room joined, both accounts entitled; the store
\* holds the conversation of A and B, with or without an unread message of B
InitFanout ==
  /\ ThreeConnected
  /\ EnvInit
  /\ accounts = [u \in Users |-> ProfilePaid]
  /\ \/ convs = StoreOpen /\ msgs = <<>>
     \/ convs = StoreUnread /\ msgs = <<UnreadMessage>>
  /\ req = [p \in Procs |-> Idle]
  /\ ops = 0
  /\ last = NoLast

SpecFanout == InitFanout /\ [][FanoutNext]_vars

----------------------------------------------------------------------------
(* Every command of a socket, with its payload shapes: SpecCommands *)

\* what a client passes as the payload of an event: nothing, null, or an
\* object (whose conversationId is the cid of the action)
Shapes == {"absent", "null", "object"}

\* the listener's parameter pattern throws: destructuring undefined or null
\* (a default value replaces undefined only)
BindingThrows(shape, hasDefault) ==
  IF shape = "null" THEN TRUE
  ELSE IF shape = "absent" THEN ~hasDefault
  ELSE FALSE

\* the listener did not catch: the TypeError leaves the handler
Escaped == {"TypeError"}

\* socket 'typing' (ev = "user_typing") and 'stop_typing' (ev =
\* "user_stop_typing"): ({ conversationId } = {}) => socket.to(room).emit(ev)
TypingEvent(op, ev, h, cid, shape) ==
  /\ sock[h] = "live" /\ connPc[h] = "ready"
  /\ shape # "object" => cid = 0
  /\ LET r == Started(op, "socket", Owner(h), h, cid, NoUser, "idle")
     IN last' = IF BindingThrows(shape, TRUE) THEN Ended(r, "TypeError", {})
                ELSE IF cid = 0 THEN Ended(r, "ignored", {})
                ELSE Ended(r, "ok", {[ev |-> ev, to |-> <<"others", cid, h>>,
                                      clientId |-> ""]})
  /\ UNCHANGED <<accounts, convs, msgs, req, ops>>
  /\ UNCHANGED <<presenceVars, envVars>>

Typing(h, cid, shape) == TypingEvent("typing", "user_typing", h, cid, shape)

StopTyping(h, cid, shape) == TypingEvent("stopTyping", "user_stop_typing", h, cid, shape)

\* socket 'mark_read' with a payload that is not an object: the parameter
\* pattern ({ conversationId }) is bound before the try block is entered
MarkReadMalformed(h, shape) ==
  /\ sock[h] = "live" /\ connPc[h] = "ready"
  /\ BindingThrows(shape, FALSE)
  /\ last' = Ended(Started("markRead", "socket", Owner(h), h, 0, NoUser, "idle"),
                   "TypeError", {})
  /\ UNCHANGED <<accounts, convs, msgs, req, ops>>
  /\ UNCHANGED <<presenceVars, envVars>>

\* socket 'send_message' with a payload that is not an object: data || {}
\* inside the try block, then the id check
SendMalformed(h, shape) ==
  /\ sock[h] = "live" /\ connPc[h] = "ready"
  /\ shape # "object"
  /\ last' = Ended(Started("send", "socket", Owner(h), h, 0, NoUser, "idle"),
                   SocketValidate(0, NoUser, NotAString), MessageError(h, ""))
  /\ UNCHANGED <<accounts, convs, msgs, req, ops>>
  /\ UNCHANGED <<presenceVars, envVars>>

\* the sends and mark_reads of A's socket 1 on its conversation with B and on
\* the conversation of B and the outsider
CommandRequests ==
  {[kind |-> k, via |-> "socket", user |-> "A", handle |-> 1, cid |-> c,
    rcv |-> IF k = "send" THEN "B" ELSE NoUser, content |-> Str(<<Rep("x", 1)>>),
    clientId |-> IF k = "send" THEN "t1" ELSE "", seq |-> ops + 1,
    hadConversation |-> TRUE] :
     k \in {"send", "markRead"}, c \in DOMAIN convs}

\* no request is outstanding: the events that touch no store are taken then
Quiet == inbox.kind = "none" /\ \A p \in Procs : req[p].pc = "idle"

CommandsNext ==
  \/ CanArrive /\ \E r \in CommandRequests : Arrive(r)
  \/ ReplyTaken
  \/ Quiet /\ \E h \in Handles, cid \in 0..Len(convs) : JoinConversation(h, cid)
  \/ Quiet /\ \E h \in Handles, cid \in DOMAIN convs : LeaveConversation(h, cid)
  \/ Quiet /\ \E h \in Handles, cid \in 0..Len(convs), shape \in Shapes :
        Typing(h, cid, shape)
  \/ Quiet /\ \E h \in Handles, cid \in 0..Len(convs), shape \in Shapes :
        StopTyping(h, cid, shape)
  \/ Quiet /\ \E h \in Handles, shape \in Shapes : MarkReadMalformed(h, shape)
  \/ Quiet /\ \E h \in Handles, shape \in Shapes : SendMalformed(h, shape)
  \/ \E p \in Procs : Pending /\ inbox.kind = "send" /\
        SocketSend(p, inbox.handle, inbox.cid, inbox.rcv, inbox.content, inbox.clientId)
  \/ \E p \in Procs : SocketSendReceiver(p)
  \/ \E p \in Procs : SocketSendConversation(p)
  \/ \E p \in Procs : SocketSendCreate(p)
  \/ \E p \in Procs : SocketSendInc(p)
  \/ \E p \in Procs : SocketSendThrows(p)
  \/ \E p \in Procs : Pending /\ inbox.kind = "markRead" /\
        MarkRead(p, inbox.user, inbox.handle, inbox.cid)
  \/ \E p \in Procs : MarkReadMessages(p)
  \/ \E p \in Procs : MarkReadReset(p)

\* three sockets connected, both accounts entitled, the store of StoreOpen
InitCommands ==
  /\ ThreeConnected
  /\ EnvInit
  /\ accounts = [u \in Users |-> ProfilePaid]
  /\ convs = StoreOpen
  /\ msgs = <<>>
  /\ req = [p \in Procs |-> Idle]
  /\ ops = 0
  /\ last = NoLast

SpecCommands == InitCommands /\ [][CommandsNext]_vars

----------------------------------------------------------------------------
(* DELETE /api/chat/:conversationId concurrent with sends: SpecDelete *)

\* Message.updateMany({conversationId}, {isDeleted: true, deletedAt})
SoftDelete(ms, cid) ==
  [i \in DOMAIN ms |-> IF ms[i].conv = cid THEN [ms[i] EXCEPT !.isDeleted = TRUE] ELSE ms[i]]

\* deleteConversation: the id check and the read of the conversation
DeleteConversation(p, u, cid) ==
  /\ Free(p) /\ Receive
  /\ LET r == Started("delete", "http", u, 0, cid, NoUser, "dmsgs")
     IN IF cid = 0 THEN Return(p, r, "Invalid conversationId", {})
        ELSE IF FindByIdFor(convs, cid, u) = 0 THEN Return(p, r, "Conversation not found", {})
        ELSE Continue(p, r)
  /\ UNCHANGED <<accounts, convs, msgs>>
  /\ UNCHANGED <<presenceVars, envVars>>

\* deleteConversation: the messages are soft-deleted
DeleteMessages(p) ==
  /\ req[p].op = "delete" /\ req[p].pc = "dmsgs"
  /\ msgs' = SoftDelete(msgs, req[p].cid)
  /\ Continue(p, [req[p] EXCEPT !.pc = "ddoc", !.wrote = TRUE])
  /\ UNCHANGED <<accounts, convs, ops>>
  /\ UNCHANGED <<presenceVars, envVars>>

\* deleteConversation: conversation.deleteOne(), then the reply
DeleteDocument(p) ==
  /\ req[p].op = "delete" /\ req[p].pc = "ddoc"
  /\ convs' = [convs EXCEPT ![req[p].cid] = [@ EXCEPT !.deleted = TRUE]]
  /\ Return(p, req[p], "ok", {})
  /\ UNCHANGED <<accounts, msgs, ops>>
  /\ UNCHANGED <<presenceVars, envVars>>

DeleteNext ==
  \/ \E p \in Procs : CanReceive(p) /\
        \E h \in {1, 2} : SocketSend(p, h, 1, pickOtherUserId(<<"A", "B">>, Owner(h)),
                                     Str(<<Rep("x", 1)>>), "t1")
  \/ \E p \in Procs : SocketSendReceiver(p)
  \/ \E p \in Procs : SocketSendConversation(p)
  \/ \E p \in Procs : SocketSendCreate(p)
  \/ \E p \in Procs : SocketSendInc(p)
  \/ \E p \in Procs : CanReceive(p) /\
        \E u \in Users : HttpSend(p, u, 1, NoUser, Str(<<Rep("x", 1)>>))
  \/ \E p \in Procs : HttpSendCreate(p)
  \/ \E p \in Procs : HttpSendSave(p)
  \/ \E p \in Procs : CanReceive(p) /\
        \E u \in Users, cid \in ConvIds : DeleteConversation(p, u, cid)
  \/ \E p \in Procs : DeleteMessages(p)
  \/ \E p \in Procs : DeleteDocument(p)

\* A and B connected and both in the room of their conversation, which holds
\* no message or one unread message of B
InitDelete ==
  /\ TwoConnected
  /\ cred = [h \in Handles |-> "valid"]
  /\ joined = [h \in Handles |-> IF h \in {1, 2} THEN {1} ELSE {}]
  /\ inbox = NoRequest
  /\ emitted = <<>>
  /\ accounts = [u \in Users |-> ProfilePaid]
  /\ \/ convs = <<NewConversation("A", "B", [x \in Users |-> 0])>> /\ msgs = <<>>
     \/ /\ convs = <<IncUnread(NewConversation("A", "B", [x \in Users |-> 0]), "A", 1)>>
        /\ msgs = <<UnreadMessage>>
  /\ req = [p \in Procs |-> Idle]
  /\ ops = 0
  /\ last = NoLast

SpecDelete == InitDelete /\ [][DeleteNext]_vars

----------------------------------------------------------------------------
(* hasPremiumAccess on every user record: SpecEntitlement *)

\* a call hasPremiumAccess(user) on the record of u, and what it returned
EntitlementCheck(u) ==
  /\ last' = [NoLast EXCEPT !.op = "entitlement", !.user = u,
                            !.result = IF hasPremiumAccess(accounts[u]) THEN "true" ELSE "false"]
  /\ UNCHANGED <<accounts, convs, msgs, req, ops>>
  /\ UNCHANGED <<presenceVars, envVars>>

EntitlementNext == \E u \in Users : EntitlementCheck(u)

\* A's record is any user record, B's is a paid one
InitEntitlement ==
  /\ TwoConnected
  /\ EnvInit
  /\ \E r \in UserRecords : accounts = [u \in Users |-> IF u = "A" THEN r ELSE ProfilePaid]
  /\ convs = <<>>
  /\ msgs = <<>>
  /\ req = [p \in Procs |-> Idle]
  /\ ops = 0
  /\ last = NoLast

SpecEntitlement == InitEntitlement /\ [][EntitlementNext]_vars

----------------------------------------------------------------------------
(* The handshake: SpecAuth *)

\* the middleware passes an Error to next(): the connection is refused, the
\* connection handler never runs for it
Refuse(h) ==
  /\ sock[h] = "new"
  /\ Authenticate(cred[h], accounts[Owner(h)]) # "ok"
  /\ \A g \in Handles : (Owner(g) = Owner(h) /\ g < h) => sock[g] # "new"
  /\ sock' = [sock EXCEPT ![h] = "refused"]
  /\ UNCHANGED <<chatVars, envVars>>
  /\ UNCHANGED <<onlineUsers, cleanupInterval, connPc, wasOnline, discPc, reaperQueue,
                 shutdownPc, shutdownUsers, userOnline, onlineEmitted, offlineEmits,
                 preEntry, transitions, reaped, reapedLive>>

\* the account states the middleware distinguishes
AuthProfiles == {ProfilePaid, ProfileSuspended, ProfileInactive, ProfileMissing}

AuthNext ==
  \/ \E h \in Handles : Connect(h)
  \/ \E h \in Handles : Refuse(h)
  \/ \E h \in Handles : ConnectDone(h)
  \/ \E h \in Handles : JoinConversation(h, 1)
  \/ \E h \in Handles : Disconnect(h)
  \/ \E h \in Handles : DisconnectDone(h)

\* no connection yet; every client holds some credential, every account is in
\* some state, the store holds the conversation of A and B
InitAuth ==
  /\ PresenceInit
  /\ cred \in [Handles -> Tokens]
  /\ joined = [h \in Handles |-> {}]
  /\ inbox = NoRequest
  /\ emitted = <<>>
  /\ accounts \in [Users -> AuthProfiles]
  /\ convs = StoreOpen
  /\ msgs = <<>>
  /\ req = [p \in Procs |-> Idle]
  /\ ops = 0
  /\ last = NoLast

SpecAuth == InitAuth /\ [][AuthNext]_vars

----------------------------------------------------------------------------
(* Properties of the presence registry and the reaper *)

\* handlesFor(u): the handle set of u, empty without an entry
handlesFor(u) == IF MapHas(onlineUsers, u) THEN MapGet(onlineUsers, u) ELSE {}

\* C1: in every reachable state a user has a registry entry iff its handle set
\* is non-empty; no entry maps to an empty set (and no key is stored twice).
C1_RegistryInvariant ==
  /\ \A i \in DOMAIN onlineUsers : onlineUsers[i].v # {}
  /\ \A u \in Users : MapHas(onlineUsers, u) <=> handlesFor(u) # {}
  /\ \A i, j \in DOMAIN onlineUsers : onlineUsers[i].k = onlineUsers[j].k => i = j

\* a disconnect removed a user's last handle while another user stays registered
C1_Witness ==
  \E h \in Handles :
    /\ discPc[h] # "idle"
    /\ ~MapHas(onlineUsers, Owner(h))
    /\ onlineUsers # <<>>

\* C6: every removal of a user's registry entry (one handle to zero) causes
\* exactly one offline broadcast for that user and no offline broadcast is
\* emitted otherwise: once no disconnect handler is waiting to broadcast, the
\* offline broadcasts of u are as many as the removals of u's entry.
C6_OfflineOncePerTransition ==
  (\A h \in Handles : discPc[h] # "await")
    => \A u \in Users : offlineEmits[u] = transitions[u]

\* C7: the connection of h broadcasts "online" iff the registry had no entry
\* for its user right before h was registered; before the handler reaches its
\* broadcast nothing has been emitted for h.
C7_OnlineOnlyOnFirstHandle ==
  \A h \in Handles :
    /\ connPc[h] = "ready" => (onlineEmitted[h] <=> ~preEntry[h])
    /\ connPc[h] # "ready" => ~onlineEmitted[h]

\* two connections of one user are through their handlers: the first one
\* broadcast, the second one (registered while the entry existed) did not
C7_Witness ==
  \E g, h \in Handles :
    /\ g # h /\ Owner(g) = Owner(h)
    /\ connPc[g] = "ready" /\ connPc[h] = "ready"
    /\ onlineEmitted[g] /\ ~onlineEmitted[h] /\ preEntry[h]

\* C8: once a sweep has finished, every user whose entry the reaper removed
\* (its last handle was dead) has had an offline broadcast.
C8_ReapedUserBroadcastOffline ==
  reaperQueue = <<>> => \A u \in reaped : offlineEmits[u] > 0

\* C9: a reaper sweep never removes a live handle from the registry.
C9_ReaperKeepsLiveHandles == reapedLive = {}

----------------------------------------------------------------------------
(* Properties of the chat handlers, checked under SpecChat *)

\* the conversations of the store whose participants are the pair {a, b}
ConversationsOf(a, b) ==
  {i \in DOMAIN convs : Range(convs[i].participants) = {a, b}}

\* C2: in every reachable state there is at most one conversation per
\* unordered pair of distinct users, however many getOrCreate calls and
\* auto-creating sends ran concurrently for the pair
C2_OneConversationPerPair ==
  \A a \in Users, b \in Users : a # b => Cardinality(ConversationsOf(a, b)) <= 1

\* the step in which handler p completes a successful send
SendCompletes(p) ==
  /\ req[p].op = "send" /\ req[p].pc \in {"inc", "hsave"}
  /\ req'[p].pc = "idle"
  /\ last'.op = "send" /\ last'.result = "ok"

\* C3: each successful send from S to another user R with no markRead on the
\* conversation in between raises R's unread counter by exactly 1 and leaves
\* S's counter as it was, on the socket path and on the HTTP path, also with
\* another send in flight on the conversation
C3_SendIncrementsByOne ==
  [][\A p \in Procs :
       (SendCompletes(p) /\ ~req[p].crossed /\ req[p].peer # req[p].user) =>
         /\ GetUnread(convs'[req[p].cid].unread, req[p].peer)
              = GetUnread(convs[req[p].cid].unread, req[p].peer) + 1
         /\ GetUnread(convs'[req[p].cid].unread, req[p].user)
              = GetUnread(convs[req[p].cid].unread, req[p].user)]_vars

\* C4: a step of markRead(conversation, U) changes neither the counterpart's
\* unread counter nor a message that is not addressed to U, and when the
\* handler completes U's counter is 0 and every message of the conversation
\* addressed to U that was unread when it started is flagged read
C4_MarkReadEffect ==
  [][\A p \in Procs :
       (req[p].op = "markRead" /\ req'[p] # req[p]) =>
         /\ \A x \in Users \ {req[p].user} :
              GetUnread(convs'[req[p].cid].unread, x)
                = GetUnread(convs[req[p].cid].unread, x)
         /\ \A i \in DOMAIN msgs :
              (msgs[i].receiver # req[p].user \/ msgs[i].conv # req[p].cid)
                => msgs'[i] = msgs[i]
         /\ req'[p].pc = "idle" =>
              /\ last'.result = "ok"
              /\ GetUnread(convs'[req[p].cid].unread, req[p].user) = 0
              /\ \A i \in req[p].unreadAtStart : msgs'[i].isRead]_vars

\* a markRead has completed on a conversation where its caller had an unread
\* message: the message is flagged read and the caller's counter is 0
C4_Witness ==
  /\ last.op = "markRead" /\ last.result = "ok" /\ last.wrote
  /\ \E i \in DOMAIN msgs :
       /\ msgs[i].receiver = last.user /\ msgs[i].sender # last.user
       /\ msgs[i].isRead
       /\ GetUnread(convs[msgs[i].conv].unread, last.user) = 0

\* C5: no message is persisted in a conversation while the block that a
\* participant X set on it stands, whatever the other participant does and
\* whatever send was in flight when X blocked
C5_NoMessageWhileBlocked == \A i \in DOMAIN msgs : ~msgs[i].heldAtCreate

\* the results of the checks that come before the entitlement check
PayloadErrors ==
  {"Invalid conversation ID", "Invalid receiver ID", "Content must be a string",
   "Message cannot be empty", "Message too long", "Content is required"}

\* C10: a send by a sender without the messaging entitlement is rejected at
\* the entitlement check (or at a payload check before it): it never gets
\* past the checks on the sender, it writes nothing to the store, and the only
\* event is message_error to the socket that sent it (none on the HTTP path)
C10_UnentitledSendRejected ==
  /\ \A p \in Procs :
       req[p].op = "send" => hasPremiumAccess(accounts[req[p].user])
  /\ (last.op = "send" /\ ~hasPremiumAccess(accounts[last.user])) =>
       /\ last.result \in PayloadErrors \cup {"Premium subscription required"}
       /\ ~last.wrote
       /\ last.emits = (IF last.via = "socket"
                          THEN MessageError(last.handle, last.clientId) ELSE {})

\* an unentitled sender's socket send with a valid payload has been rejected
\* while the conversation it names exists
C10_Witness ==
  /\ last.op = "send" /\ last.via = "socket"
  /\ ~hasPremiumAccess(accounts[last.user])
  /\ last.result = "Premium subscription required"
  /\ ConversationsOf("A", "B") # {}

----------------------------------------------------------------------------
(* Properties of a single send, checked under SpecSend *)

\* a send has just returned: last is its outcome, inbox its payload
SendReturned == last.op = "send" /\ inbox.kind = "send"

NonString(c) == ~c.isString

Blank(c) == c.isString /\ Length(Trim(c.chars)) = 0

TooLong(c) == c.isString /\ Length(Trim(c.chars)) > MAX_MESSAGE_LENGTH

BadContent(c) == NonString(c) \/ Blank(c) \/ TooLong(c)

\* the reasons of the content checks
ContentReasons ==
  {"Content must be a string", "Message cannot be empty", "Content is required",
   "Message too long"}

\* the request reaches the content checks: a socket payload with both ids, an
\* HTTP request that passed protect
ReachesContentCheck ==
  IF inbox.via = "socket" THEN inbox.cid # 0 /\ inbox.rcv # NoUser
  ELSE Protect(accounts[inbox.user]) = "ok"

PersistenceErrors == {"Failed to send message", "Server error"}

\* C12: a send by an entitled, active A that names only the active receiver B,
\* with a valid content, when no conversation of A and B exists and no store
\* operation fails, succeeds: one conversation of the pair exists with the
\* message in it, B's counter is 1, A's is 0, and A gets no error event
C12_BareReceiverSendCreates ==
  (/\ SendReturned
   /\ inbox.cid = 0 /\ inbox.rcv = "B" /\ ~inbox.hadConversation
   /\ ~BadContent(inbox.content)
   /\ SenderCheck(accounts["A"]) = "ok" /\ ReceiverCheck(accounts["B"]) = "ok"
   /\ last.result \notin PersistenceErrors)
  => /\ last.result = "ok"
     /\ \A e \in last.emits : e.ev # "message_error"
     /\ \E c \in ConversationsOf("A", "B") :
          /\ ConversationsOf("A", "B") = {c}
          /\ GetUnread(convs[c].unread, "B") = 1
          /\ GetUnread(convs[c].unread, "A") = 0
          /\ \E i \in DOMAIN msgs :
               msgs[i].conv = c /\ msgs[i].sender = "A" /\ msgs[i].receiver = "B"


----------------------------------------------------------------------------
(* Fan-out of a sent message *)

\* a send_message handler has returned after its emits
SocketSendOk == last.op = "send" /\ last.via = "socket" /\ last.result = "ok"

\* C13: after a successful send every live socket in the conversation's room
\* receives new_message, and message_notification is received by exactly the
\* receiver's live sockets that are not in the room
C13_NotifyOnlyOutsideRoom ==
  SocketSendOk =>
    \A h \in Handles : sock[h] = "live" =>
      /\ inbox.cid \in joined[h] => Received(h, "new_message") # {}
      /\ Received(h, "message_notification") # {}
           <=> (h \in LiveHandles(inbox.rcv) /\ inbox.cid \notin joined[h])

\* a send_message handler has returned a failure
SocketSendFailed == last.op = "send" /\ last.via = "socket" /\ last.result # "ok"

\* C14: a send_message that fails, whatever the reason, emits one
\* message_error with the payload's clientId, received by the socket that sent
\* the payload; no other socket receives any event
C14_FailureOnlyToSender ==
  SocketSendFailed =>
    /\ last.emits = {[ev |-> "message_error", to |-> <<"socket", inbox.handle>>,
                      clientId |-> inbox.clientId]}
    /\ Cardinality(Received(inbox.handle, "message_error")) = 1
    /\ \A h \in Handles \ {inbox.handle} : \A e \in last.emits : h \notin Delivered(e)

\* the store rejected the counter update of a send whose message was created,
\* and the failure was reported for the second correlation token
C14_Witness ==
  /\ SocketSendFailed
  /\ last.result = "Failed to send message" /\ last.wrote
  /\ inbox.clientId = "t2"
  /\ Received(1, "message_error") # {}

----------------------------------------------------------------------------
(* The handshake *)

\* the credential of socket h is present, verifies and is unexpired, and its
\* account exists and is neither suspended nor inactive
GoodCredential(h) ==
  /\ cred[h] = "valid"
  /\ accounts[Owner(h)].exists
  /\ ~accounts[Owner(h)].isSuspended
  /\ accounts[Owner(h)].isActive

\* socket h got past the middleware: the connection handler ran for it
Admitted(h) ==
  \/ h \in Registered(onlineUsers)
  \/ connPc[h] # "idle"
  \/ sock[h] \in {"live", "dead"}
  \/ joined[h] # {}
  \/ onlineEmitted[h]
  \/ (last.op = "join" /\ last.handle = h)

\* C15: a socket is registered, and its events are handled, only if its
\* handshake carried a good credential; a refused handshake leaves the registry,
\* the presence broadcasts and the stored presence as they were
C15_OnlyAuthenticatedAdmitted ==
  /\ [](\A h \in Handles : /\ Admitted(h) => GoodCredential(h)
                           /\ sock[h] = "refused" => ~Admitted(h))
  /\ [][\A h \in Handles :
          (sock[h] = "new" /\ ~GoodCredential(h) /\ sock'[h] # "new") =>
             /\ sock'[h] = "refused"
             /\ UNCHANGED <<onlineUsers, onlineEmitted, offlineEmits, userOnline,
                            connPc, joined>>]_vars

\* A's account is suspended and its token still verifies: A's socket was
\* refused, while B's socket is registered and has joined the conversation
C15_Witness ==
  /\ sock[1] = "refused" /\ cred[1] = "valid" /\ accounts["A"].isSuspended
  /\ 2 \in Registered(onlineUsers) /\ connPc[2] = "ready" /\ joined[2] = {1}

----------------------------------------------------------------------------
(* markRead run again *)

\* the state a markRead of u on conversation cid leaves: no message of cid to u
\* is unread and u's counter is 0
ReadBy(cid, u) ==
  /\ \A i \in DOMAIN msgs : (msgs[i].conv = cid /\ msgs[i].receiver = u) => msgs[i].isRead
  /\ GetUnread(convs[cid].unread, u) = 0

\* the counters of both participants of conversation cid in the store cs
Counters(cs, cid) ==
  [i \in DOMAIN cs[cid].participants |-> GetUnread(cs[cid].unread, cs[cid].participants[i])]

\* C16: a markRead of u that runs on a conversation in the state a markRead of
\* u left changes no message (flag and readAt) and no unread counter, and it
\* reports no error
C16_MarkReadIdempotent ==
  /\ [][\A p \in Procs :
          (req[p].op = "markRead" /\ ReadBy(req[p].cid, req[p].user)) =>
             /\ msgs' = msgs
             /\ Counters(convs', req[p].cid) = Counters(convs, req[p].cid)
             /\ req'[p].pc = "idle" => last'.result = "ok"]_vars
  /\ [](last.op = "markRead" => last.result = "ok")

\* the second request was a markRead of A and has returned; the first one was a
\* markRead that flagged the message of B, whose readAt is still that of the
\* first
C16_Witness ==
  /\ ops = 2 /\ last.op = "markRead" /\ last.user = "A" /\ last.result = "ok"
  /\ Len(msgs) = 1 /\ msgs[1].receiver = "A" /\ msgs[1].isRead /\ msgs[1].readAt = 1
  /\ GetUnread(convs[1].unread, "A") = 0 /\ GetUnread(convs[1].unread, "B") = 0

\* C17: after a successful mark_read of u every live socket of the other
\* participant of the conversation receives messages_read, in the room or not
C17_ReceiptToCounterpart ==
  (last.op = "markRead" /\ last.via = "socket" /\ last.result = "ok") =>
    \A h \in LiveHandles(pickOtherUserId(convs[inbox.cid].participants, last.user)) :
      Received(h, "messages_read") # {}

----------------------------------------------------------------------------
(* The order of the checks of a send *)

\* the account cannot take part: it does not exist, is suspended or inactive
BadAccount(a) == ~a.exists \/ a.isSuspended \/ ~a.isActive

\* the first check a send request violates, in the order content, sender
\* account, entitlement, receiver account, conversation, participants
FirstViolated(r) ==
  IF BadContent(r.content) THEN "content"
  ELSE IF BadAccount(accounts[r.user]) THEN "sender"
  ELSE IF ~hasPremiumAccess(accounts[r.user]) THEN "entitlement"
  ELSE IF BadAccount(accounts[r.rcv]) THEN "receiver"
  ELSE IF FindById(convs, r.cid) = 0 \/ convs[r.cid].isBlocked THEN "conversation"
  ELSE IF ~({r.user, r.rcv} \subseteq Range(convs[r.cid].participants)) THEN "participants"
  ELSE "none"

\* the check a reported reason belongs to
CheckOf(reason) ==
  IF reason \in ContentReasons THEN "content"
  ELSE IF reason \in {"User not found", "Account suspended", "Account inactive"} THEN "sender"
  ELSE IF reason = "Premium subscription required" THEN "entitlement"
  ELSE IF reason \in {"Receiver not found", "Cannot message this user"} THEN "receiver"
  ELSE IF reason \in {"Conversation not found", "Conversation is blocked"} THEN "conversation"
  ELSE IF reason = "Not authorized" THEN "participants"
  ELSE IF reason = "ok" THEN "none"
  ELSE "other"

\* a send that names a conversation and a receiver has returned, and not from
\* a rejected store operation
CheckedSendReturned ==
  /\ SendReturned /\ inbox.cid # 0 /\ inbox.rcv # NoUser
  /\ last.result \notin PersistenceErrors

\* C18: the reason a send reports is that of the first check it violates, in
\* the order content, sender account, entitlement, receiver account,
\* conversation exists and is not blocked, participants; a send that violates
\* none succeeds
C18_FirstViolatedCheckReported ==
  CheckedSendReturned => CheckOf(last.result) = FirstViolated(inbox)

----------------------------------------------------------------------------
(* Graceful shutdown *)

\* cleanup() is called
ShutdownBegins == shutdownPc = "idle" /\ shutdownPc' = "await"

\* the promises of cleanup() have all settled and its then() has run
ShutdownCompletes == shutdownPc = "await" /\ shutdownPc' = "idle"

\* a socket that died silently is dropped from the registry although the
\* registry is not cleared: the sweep of runCleanup
SweptDead ==
  \E h \in Registered(onlineUsers) \ Registered(onlineUsers') :
    sock[h] = "dead" /\ onlineUsers' # <<>>

\* C19: cleanup() first stops the reaper, for good, so that no sweep starts
\* afterwards; it then attempts the offline update of every user registered at
\* that moment, however the attempts end; when it completes the registry is
\* empty and only attempted users were marked offline; run again on the empty
\* registry it attempts nothing and changes nothing
C19_ShutdownDrains ==
  /\ [][ShutdownBegins =>
          /\ ~cleanupInterval'
          /\ shutdownUsers' = MapKeys(onlineUsers)
          /\ UNCHANGED <<onlineUsers, userOnline, offlineEmits>>
          /\ (~cleanupInterval /\ onlineUsers = <<>>) =>
                (shutdownUsers' = {} /\ UNCHANGED cleanupInterval)]_vars
  /\ [][~cleanupInterval =>
          /\ ~cleanupInterval'
          /\ reaperQueue = <<>> => (reaperQueue' = <<>> /\ reaped' = reaped /\ ~SweptDead)]_vars
  /\ [][ShutdownCompletes =>
          /\ onlineUsers' = <<>>
          /\ \A u \in Users : userOnline'[u] # userOnline[u] => u \in shutdownUsers
          /\ (shutdownUsers = {} /\ onlineUsers = <<>>) =>
                UNCHANGED <<onlineUsers, userOnline, offlineEmits, cleanupInterval>>]_vars
  /\ [](shutdownPc = "await" => ~cleanupInterval)

\* shutdown has completed and emptied the registry while the sockets of A and B
\* were connected and registered; the update of A failed, that of B succeeded
C19_Witness ==
  /\ ~cleanupInterval /\ shutdownPc = "idle" /\ onlineUsers = <<>>
  /\ sock[1] = "live" /\ connPc[1] = "ready" /\ sock[2] = "live" /\ connPc[2] = "ready"
  /\ reaped = {} /\ transitions["A"] = 1 /\ transitions["B"] = 1
  /\ userOnline["A"] /\ ~userOnline["B"]

----------------------------------------------------------------------------
(* A message and its conversation's summary *)

\* the messages of conversation cid a reader retrieves
MessagesOf(cid) == {i \in DOMAIN msgs : msgs[i].conv = cid}

\* the latest of them, 0 when there is none
LatestOf(cid) ==
  IF MessagesOf(cid) = {} THEN 0
  ELSE CHOOSE i \in MessagesOf(cid) : \A j \in MessagesOf(cid) : j <= i

\* the unread messages of conversation cid addressed to u
UnreadOf(cid, u) == {i \in MessagesOf(cid) : msgs[i].receiver = u /\ ~msgs[i].isRead}

\* C20: in every state lastMessage of every conversation is its latest
\* retrievable message and every participant's counter is the number of
\* unread messages addressed to it; a send that reported a failure wrote
\* nothing to the store
C20_MessageAndSummaryTogether ==
  /\ \A cid \in DOMAIN convs :
       /\ convs[cid].lastMessage = LatestOf(cid)
       /\ \A u \in Range(convs[cid].participants) :
            GetUnread(convs[cid].unread, u) = Cardinality(UnreadOf(cid, u))
  /\ (SendReturned /\ last.result # "ok") => ~last.wrote

----------------------------------------------------------------------------
(* The order of the message events *)

\* C21: the new_message events of one conversation are emitted in the order in
\* which their messages were created, and only for messages that are in the
\* store, also when two sends of the conversation run concurrently
C21_EventsInCreationOrder ==
  /\ \A i \in DOMAIN emitted : emitted[i] \in DOMAIN msgs
  /\ \A i, j \in DOMAIN emitted :
       (i < j /\ msgs[emitted[i]].conv = msgs[emitted[j]].conv) => emitted[i] < emitted[j]

----------------------------------------------------------------------------
(* Messages and their participants *)

\* C22: the sender and the receiver of every stored message are the two
\* distinct participants of its conversation, and the keys of every unread
\* map are participants of its conversation
C22_MessagesBetweenParticipants ==
  /\ \A i \in DOMAIN msgs :
       /\ msgs[i].sender # msgs[i].receiver
       /\ {msgs[i].sender, msgs[i].receiver} = Range(convs[msgs[i].conv].participants)
  /\ \A cid \in DOMAIN convs : DOMAIN convs[cid].unread \subseteq Range(convs[cid].participants)

----------------------------------------------------------------------------
(* A connection that is closed *)

\* C23: a socket that was closed after it was registered, also one closed
\* while its connection handler awaits the status update, is no longer in the
\* registry (no sweep is needed to remove it); and a socket that left the
\* registry is never added to it again
C23_ClosedHandleUnregistered ==
  /\ [](\A h \in Handles :
          (sock[h] = "dead" /\ connPc[h] = "await") => h \notin Registered(onlineUsers))
  /\ [][\A h \in Handles :
          (sock[h] # "new" /\ h \notin Registered(onlineUsers)) =>
             h \notin Registered(onlineUsers')]_vars

----------------------------------------------------------------------------
(* Unread counters at rest *)

\* no send and no markRead is in progress on conversation cid
AtRest(cid) ==
  \A p \in Procs : req[p].op \in {"send", "markRead"} => req[p].cid # cid

\* C24: whenever no send and no markRead is in progress on a conversation,
\* the unread counter of each participant is the number of its messages
\* addressed to that participant whose read flag is false
C24_CounterMatchesUnread ==
  \A cid \in DOMAIN convs :
    AtRest(cid) =>
      \A u \in Range(convs[cid].participants) :
        GetUnread(convs[cid].unread, u) = Cardinality(UnreadOf(cid, u))

----------------------------------------------------------------------------
(* The commands of a socket *)

\* a listener of a socket has returned (or thrown)
CommandReturned == last.op # "none" /\ last.via = "socket"

\* the events by which a listener reports a failure
FailureEvents == {"error", "message_error"}

\* C25: whatever the payload of a command, absent and null included, the
\* listener performs it, ignores it or emits a failure event that only its own
\* socket receives; no error leaves the listener
C25_NoErrorEscapes ==
  CommandReturned =>
    /\ last.result \notin Escaped
    /\ \A e \in last.emits : e.ev \in FailureEvents => Delivered(e) \subseteq {last.handle}
    /\ last.result \notin {"ok", "ignored"} =>
         \E e \in last.emits : e.ev \in FailureEvents /\ last.handle \in Delivered(e)

\* C27: an event that a command emits into the room of a conversation reaches
\* another socket only if the command's user is a participant of the
\* conversation, and a send or mark_read of a user who is not a participant
\* of the conversation it names reaches no other socket and writes nothing
C27_OnlyParticipantsReachRoom ==
  CommandReturned =>
    /\ \A e \in last.emits :
         (e.to[1] \in {"room", "others"} /\ Delivered(e) \ {last.handle} # {}) =>
            last.user \in Range(convs[e.to[2]].participants)
    /\ (/\ last.op \in {"send", "markRead"} /\ inbox.kind # "none"
        /\ last.user \notin Range(convs[inbox.cid].participants)) =>
          /\ ~last.wrote
          /\ \A e \in last.emits : Delivered(e) \subseteq {last.handle}

----------------------------------------------------------------------------
(* Account status at the time of a send *)

\* the account is suspended or was set inactive
Barred(a) == a.exists /\ (a.isSuspended \/ ~a.isActive)

\* C26: a send of A, whose socket was authenticated when it connected, is
\* rejected and persists nothing when A's account is suspended or inactive at
\* the time of the send, and also when the account of the receiver is
C26_StatusReadPerSend ==
  (/\ SendReturned /\ inbox.rcv # NoUser
   /\ Barred(accounts[inbox.user]) \/ Barred(accounts[inbox.rcv])) =>
     (last.result # "ok" /\ ~last.wrote)

----------------------------------------------------------------------------
(* A conversation deleted while a send runs *)

\* C28: every message that is not soft-deleted belongs to a conversation that
\* exists, and no new_message is emitted to the room of a conversation that
\* has been deleted, also when deleteConversation runs between the steps of a
\* send
C28_NoLiveMessageOfDeleted ==
  /\ \A i \in DOMAIN msgs : ~msgs[i].isDeleted => ~convs[msgs[i].conv].deleted
  /\ \A e \in last.emits : e.ev = "new_message" => ~convs[e.to[2]].deleted

----------------------------------------------------------------------------
(* Presence recorded and announced *)

\* no connection handler, disconnect listener or runCleanup loop is between
\* its awaits for user u
PresenceSettled(u) ==
  /\ \A h \in Handles : Owner(h) = u => connPc[h] # "await" /\ discPc[h] # "await"
  /\ \A i \in DOMAIN reaperQueue : reaperQueue[i] # u

\* C29: while the server runs and no connect, disconnect or reaper step is in
\* progress for a user, User.isOnline and the last user_status_change
\* broadcast for the user say online exactly when the user has a registry
\* entry; in particular the user is not recorded or announced offline while a
\* live handle of the user is registered
C29_PresenceAgreesWithRegistry ==
  \A u \in Users :
    (cleanupInterval /\ shutdownPc = "idle" /\ PresenceSettled(u)) =>
      /\ userOnline[u] = MapHas(onlineUsers, u)
      /\ (announced[u] = "online") = MapHas(onlineUsers, u)
      /\ LiveHandles(u) # {} => userOnline[u] /\ announced[u] # "offline"

----------------------------------------------------------------------------
(* The entitlement check *)

\* the record carries an expiry that lies strictly after the check: the end
\* date of an active subscription, or a premium expiry
FutureExpiry(user) ==
  \/ user.subActive /\ user.subEnd = "future"
  \/ user.premiumExpiry = "future"

\* the record the last call of hasPremiumAccess was given
Checked == accounts[last.user]

\* C30: hasPremiumAccess returns true only for a record with an expiry date
\* strictly after the time of the check; an absent user, a premium flag with
\* no expiry at all, and a monthly or yearly subscription that is inactive or
\* not in the future all yield false
C30_EntitlementExpiryGated ==
  last.op = "entitlement" =>
    /\ last.result = "true" => (Checked.exists /\ FutureExpiry(Checked))
    /\ ~Checked.exists => last.result = "false"
    /\ (Checked.premiumExpiry = "none" /\ Checked.subEnd = "none") => last.result = "false"
    /\ (Checked.subPlan \in {"monthly", "yearly"} /\
          (~Checked.subActive \/ Checked.subEnd # "future")) => last.result = "false"

\* a record with no subscription snapshot and a premium expiry in the future
\* was checked and found entitled
C30_Witness ==
  /\ last.op = "entitlement" /\ last.result = "true"
  /\ Checked.subPlan = "free" /\ Checked.subEnd = "none"
  /\ Checked.premiumExpiry = "future"

====
